---- MODULE Spec2Model ----
(***************************************************************************)
(* Scroll-Reaction.js (src/src/scroll-reaction.js, lines 1-379): one        *)
(* instance of the constructor function, the document it scans and the      *)
(* window it reads; the rate limiter defer (lines 700-725) on its own       *)
(* clock; scrollTo and the click handler with the browser state they touch. *)
(* The attributes of the elements are read from the live document: what     *)
(* update() has set or removed is what refresh() and a click find.          *)
(*                                                                          *)
(* Strings are sequences of tokens (the id "a" is <<"a">>, the href "#a"    *)
(* is <<"#", "a">>), so that indexOf and replace are computed.  Lengths are *)
(* in px; the pages explored are a few px high.  Emitter ids are not        *)
(* integer-like, so `for (var e in emitters)` enumerates them in insertion  *)
(* order.                                                                   *)
(***************************************************************************)
EXTENDS Integers, Sequences, FiniteSets

VARIABLES
    userConfig,    \* the argument of the constructor, captured by its closures
    config,        \* merged config of the instance (scroll-reaction.js:41-47)
    listeners,     \* var listeners: sequence of [element, emitterId]
    emitters,      \* var emitters: sequence of [id, active] in key (insertion) order
    events,        \* var events: sequence of [name, callback]
    position,      \* this.position
    status,        \* this.status
    scrollY,       \* window.scrollY
    layout,        \* geometry of the page: index into Layouts
    docListeners,  \* elements of ListenerElements the document holds
    docIds,        \* ids of the emitter elements in the document
    marked,        \* elements on which update() has set the attribute
                   \* config.attributeCurrent (line 257)
    stripped,      \* elements from which update() has removed an attribute
                   \* config.attributeCurrent of their markup (line 260)
    instance,      \* new ScrollReaction(userConfig) has returned an instance
    clickBound,    \* per listener element, how often scrollSmoothly is attached
    fired,         \* callbacks run by the last operation, in call order
    seen,          \* what those callbacks found when they ran, one entry
                   \* per emit: this.position, this.status and the marked
                   \* elements
    thrown,        \* the last operation ended by an exception
    lastPass,      \* the pass the last operation ran: "init" (the one of
                   \* the constructor), "refresh", "refreshed" (a
                   \* refresh() right after a refresh()), "update",
                   \* "repeat" (an update() right after a pass) or "none"
    geoChanged,    \* page geometry or document changed since the last pass
    docChanged,    \* the document was rewritten after construction
    \* the rate limiter returned by defer(callback, context, interval, debounce)
    interval,      \* its interval in ms
    debounce,      \* debounce mode enabled?
    lastTime,      \* var lastTime: <<>> while undefined, <<t>> once assigned
    deferTimer,    \* var deferTimer: id of the last timeout set, 0 while undefined
    timers,        \* the browser's pending timeouts: [id, due, now]
    now,           \* Date.now()
    history,       \* calls of the wrapper and executions of the callback, in order
    queued,        \* window events the browser has yet to dispatch
    debounced,     \* pending timeouts of the debounced handlers, per event
    again,         \* the handlers later calls of init() have attached to window:
                   \* per call and event, the state of the rate limiter
    \* the browser state scrollTo touches
    url,           \* window.location.href
    scrollCall,    \* the last scrollTo call, <<>> or <<c>>: its argument c.id, the
                   \* URL c.href it found, the window.scrollTo request (c.top,
                   \* c.behavior) it made, whether the animated scroll is still
                   \* pending and whether the call was the last operation
    activeElement, \* document.activeElement (an id or NULL)
    tabindex,      \* elements that were given tabindex="-1"
    scrollBehavior,\* 'scrollBehavior' in document.documentElement.style
    scrollOptions, \* window.scrollTo takes { top, left, behavior } (native or polyfill)
    reducedMotion, \* window.matchMedia('(prefers-reduced-motion)').matches
    fromElement,   \* the element the deprecated option offsetFrom selects: <<>>
                   \* while the document has none, <<h>> with its offsetHeight h
    \* a second instance on the same page
    other,         \* the instance that is not operating: its own state
    turn,          \* whose turn it is when two instances receive every operation
    pending        \* the operation the second of them has yet to receive

instanceVars == <<userConfig, config, listeners, emitters, events, position, status,
                  scrollY, layout, docListeners, docIds, marked, stripped, instance,
                  clickBound, fired, seen, thrown, lastPass, geoChanged, docChanged>>
deferVars == <<interval, debounce, lastTime, deferTimer, timers, now, history,
               queued, debounced, again>>
navVars == <<url, scrollCall, activeElement, tabindex, scrollBehavior, scrollOptions, reducedMotion,
             fromElement>>
pairVars == <<other, turn, pending>>
vars == <<instanceVars, deferVars, navVars, pairVars>>

(***************************************************************************)
(* Bounds of the model                                                      *)
(***************************************************************************)
MaxEvents == 1
MaxTime == 7
MaxCalls == 4
MaxCallbacks == 2
MaxHandled == 2

Max(a, b) == IF a >= b THEN a ELSE b
Min(a, b) == IF a <= b THEN a ELSE b

(***************************************************************************)
(* The document: listener elements in document order, emitter elements      *)
(***************************************************************************)
NULL == <<"null">>

\* The listener elements the document can hold, in document order.
\* 1: <a href="#a" data-scroll-reaction>
\* 2: <a href="#b" data-scroll-reaction>
\* 3: <div data-scroll-reaction="a">           (no href, shares emitter a)
\* 4: <a href="#c" data-scroll-reaction>
\* 5: <a href="#" data-scroll-reaction="">     (scroll to top link)
ListenerElements ==
    << [href |-> <<"#", "a">>, attribute |-> <<>>],
       [href |-> <<"#", "b">>, attribute |-> <<>>],
       [href |-> NULL,          attribute |-> <<"a">>],
       [href |-> <<"#", "c">>, attribute |-> <<>>],
       [href |-> <<"#">>,      attribute |-> <<>>] >>

\* The attribute the listener elements above carry
ListenerAttribute == <<"data-scroll-reaction">>

ElementIds == { <<"a">>, <<"b">>, <<"c">> }

\* The emitter elements the document can hold, after the listener elements
\* in document order.
\* 6: <section id="a">   7: <section id="b">   8: <section id="c">
SectionElements == << <<"a">>, <<"b">>, <<"c">> >>

\* The elements the document can hold
Elements == 1 .. (Len(ListenerElements) + Len(SectionElements))

IsSection(el) == el > Len(ListenerElements)

\* The id of the emitter element el
SectionId(el) == SectionElements[el - Len(ListenerElements)]

\* The emitter element with the id
SectionOf ==
    [id \in ElementIds |-> CHOOSE el \in Elements : IsSection(el) /\ SectionId(el) = id]

\* The elements of a document that holds the listener elements S and the
\* emitter elements with the ids
Document(S, ids) == S \cup { SectionOf[id] : id \in ids }

\* The documents explored: which listener elements, which emitter elements
ListenerSets == { 1 .. Len(ListenerElements), {} }
IdSets == { ElementIds, ElementIds \ { <<"c">> } }

\* Page geometries: viewport height (window.innerHeight), body height
\* (document.body.clientHeight), height of the scrollable area (the body and
\* its margins) and the absolute (document) coordinates of each emitter
\* element's top and bottom edge.
Layouts ==
    << \* a, b and c below each other; c cannot be scrolled to
       [innerHeight |-> 4, clientHeight |-> 8, scrollHeight |-> 8,
        top    |-> [e \in ElementIds |->
                     CASE e = <<"a">> -> 1 [] e = <<"b">> -> 2 [] OTHER -> 6],
        bottom |-> [e \in ElementIds |->
                     CASE e = <<"a">> -> 2 [] e = <<"b">> -> 3 [] OTHER -> 8]],
       \* a at the very top, b and c side by side below it
       \* (the body has a margin: the window scrolls 1px past the body's end)
       [innerHeight |-> 6, clientHeight |-> 8, scrollHeight |-> 9,
        top    |-> [e \in ElementIds |->
                     CASE e = <<"a">> -> 0 [] e = <<"b">> -> 1 [] OTHER -> 1],
        bottom |-> [e \in ElementIds |->
                     CASE e = <<"a">> -> 1 [] e = <<"b">> -> 8 [] OTHER -> 8]],
       \* a body exactly as high as the viewport, with a margin of 1px
       [innerHeight |-> 8, clientHeight |-> 8, scrollHeight |-> 9,
        top    |-> [e \in ElementIds |->
                     CASE e = <<"a">> -> 0 [] e = <<"b">> -> 1 [] OTHER -> 4],
        bottom |-> [e \in ElementIds |->
                     CASE e = <<"a">> -> 1 [] e = <<"b">> -> 4 [] OTHER -> 8]] >>

\* document.body.clientHeight - window.innerHeight
WindowBottomPosition == Layouts[layout].clientHeight - Layouts[layout].innerHeight

\* The greatest scroll offset the window can have under layout l
ScrollMax(l) == Max(Layouts[l].scrollHeight - Layouts[l].innerHeight, 0)

\* The scroll offsets the window can have under layout l.
ScrollRange(l) == 0 .. ScrollMax(l)

\* Where the window ends up when asked to scroll to top
Clamp(top, l) == Max(0, Min(top, ScrollMax(l)))

\* element.getBoundingClientRect(): relative to the viewport; an element that
\* is not in the document has no box and yields a rectangle of zeros.
BoundingClientRect(id) ==
    IF id \in docIds
    THEN [top    |-> Layouts[layout].top[id] - scrollY,
          bottom |-> Layouts[layout].bottom[id] - scrollY]
    ELSE [top |-> 0, bottom |-> 0]

\* The elements of S in document order
RECURSIVE InOrder(_, _)
InOrder(S, n) ==
    IF n \notin Elements THEN <<>>
    ELSE (IF n \in S THEN <<n>> ELSE <<>>) \o InOrder(S, n + 1)

\* JavaScript truthiness of a string option ('' and false are falsy)
Truthy(s) == s # <<>> /\ s # NULL

\* The attribute of the name in the markup of the element: href and the
\* listener attribute of a listener element, id of an emitter element; null
\* for an attribute the markup does not have
Markup(el, name) ==
    IF IsSection(el)
    THEN (IF name = <<"id">> THEN SectionId(el) ELSE NULL)
    ELSE IF name = <<"href">> THEN ListenerElements[el].href
    ELSE IF name = ListenerAttribute THEN ListenerElements[el].attribute
    ELSE NULL

\* The attribute of the name the element has before any update(): the one
\* of its markup, or the tabindex="-1" scrollTo has given it (line 293)
Before(el, name) ==
    IF name = <<"tabindex">>
    THEN (IF IsSection(el) /\ SectionId(el) \in tabindex THEN <<"-", "1">> ELSE NULL)
    ELSE Markup(el, name)

\* el.getAttribute(name) on the live element: update() has set the
\* attribute config.attributeCurrent to '' on the elements mk (line 257)
\* and has removed it from the elements st (line 260)
GetAttribute(el, name, mk, st) ==
    IF name # config.attributeCurrent \/ ~Truthy(name) THEN Before(el, name)
    ELSE IF el \in mk THEN <<>>
    ELSE IF el \in st THEN NULL
    ELSE Before(el, name)

\* '[' + config.attribute + ']' is not a selector when the attribute is the
\* empty string: document.querySelectorAll('[]') throws a SyntaxError
QueryThrows == config.attribute = <<>>

\* document.querySelectorAll('[' + config.attribute + ']') (line 110): the
\* elements of the document that carry the configured attribute now, in
\* document order
QuerySelectorAll(mk, st) ==
    InOrder({ el \in Document(docListeners, docIds) :
                 GetAttribute(el, config.attribute, mk, st) # NULL }, 1)

\* document.getElementById(id): the emitter element whose id attribute is
\* the id now
GetElementById(id, mk, st) ==
    IF id \in docIds /\ GetAttribute(SectionOf[id], <<"id">>, mk, st) = id
    THEN id ELSE NULL

(***************************************************************************)
(* Configuration (default-config.js, scroll-reaction.js:41-60)              *)
(***************************************************************************)
DefaultConfig ==
    [ attribute          |-> <<"data-scroll-reaction">>,
      attributeCurrent   |-> <<"data-scroll-active">>,
      multiple           |-> FALSE,
      offsetTop          |-> 5,
      offsetBottom       |-> 5,
      rewind             |-> TRUE,
      smoothScroll       |-> "auto",
      throttleDelay      |-> 100,
      windowBottomOffset |-> 20 ]

\* The user configs explored (offsets fit the small pages of Layouts).
UserConfigs ==
    [ attributeCurrent   : { <<"data-scroll-active">>, <<>> },
      multiple           : BOOLEAN,
      offsetTop          : { 0, 1 },
      offsetBottom       : { 1 },
      rewind             : BOOLEAN,
      smoothScroll       : { "auto" },
      windowBottomOffset : { 0, 1 } ]

\* new ScrollReaction() without argument: userConfig is undefined
UNDEFINED == [undefined |-> TRUE]

\* new ScrollReaction({})
EmptyConfig == [c \in {} |-> 0]

\* userConfig && c in userConfig (line 46); u.c is undefined without it
Has(u, c) == "undefined" \notin DOMAIN u /\ c \in DOMAIN u

\* for (var c in defaultConfig)
\*     config[c] = userConfig && c in userConfig ? userConfig[c] : defaultConfig[c]
MergeConfig(u) ==
    [ c \in DOMAIN DefaultConfig |->
        IF Has(u, c) THEN u[c] ELSE DefaultConfig[c] ]

\* userConfig.offset is truthy (lines 50, 57): given and not 0
HasOffset(u) == Has(u, "offset") /\ u.offset # 0

\* userConfig.offsetFrom is truthy (line 55): given and not ''
HasOffsetFrom(u) == Has(u, "offsetFrom") /\ Truthy(u.offsetFrom)

\* The function lines 56-59 store in config.offsetTop; as a value of the
\* option it is told from every number of pixels the pages here can use
OffsetFromFunction == 1000

\* A function the user passes as an offset option, function() { return n },
\* as a value of the option
UserFunction(n) == 2000 + n

\* typeof v === 'function' for the value v of an offset option
IsFunction(v) == v >= OffsetFromFunction

\* Lines 50 and 55 read a property of userConfig: a TypeError when it is
\* undefined
ConfigThrows(u) == "undefined" \in DOMAIN u

\* A bug: the deprecated options are not looked at
ResolveConfigMergeOnly(u) == MergeConfig(u)

\* The config object after lines 41-60
ResolveConfig(u) ==
    LET merged     == MergeConfig(u)
        withOffset == IF HasOffset(u)
                      THEN [merged EXCEPT !.offsetTop = u.offset]
                      ELSE merged
    IN  IF HasOffsetFrom(u)
        THEN [withOffset EXCEPT !.offsetTop = OffsetFromFunction]
        ELSE withOffset

\* The call of the function of lines 56-59 throws: querySelector found no
\* element and its offsetHeight is read
OffsetTopThrowsAt(fe) == config.offsetTop = OffsetFromFunction /\ fe = <<>>

OffsetTopThrows == OffsetTopThrowsAt(fromElement)

\* var offsetTop (lines 198, 281): the option, or what the function returns
\* while the element offsetFrom selects is fe
OffsetTopAt(fe) ==
    IF config.offsetTop = OffsetFromFunction
    THEN (IF fe = <<>> THEN 0 ELSE fe[1])
         + (IF HasOffset(userConfig) THEN userConfig.offset ELSE 0)
    ELSE IF IsFunction(config.offsetTop)
         THEN config.offsetTop - UserFunction(0)
         ELSE config.offsetTop

OffsetTop == OffsetTopAt(fromElement)

\* var offsetBottom (line 200): the option, or what the function returns
OffsetBottom ==
    IF IsFunction(config.offsetBottom)
    THEN config.offsetBottom - UserFunction(0)
    ELSE config.offsetBottom

(***************************************************************************)
(* refresh (scroll-reaction.js:108-166)                                     *)
(***************************************************************************)
\* s.indexOf('#'): 0-based index of the first '#', -1 when there is none
IndexOfHash(s) ==
    IF \E i \in 1 .. Len(s) : s[i] = "#"
    THEN (CHOOSE i \in 1 .. Len(s) :
              s[i] = "#" /\ \A j \in 1 .. i - 1 : s[j] # "#") - 1
    ELSE -1

\* s.replace('#', ''): s without its first '#'
ReplaceHash(s) ==
    LET i == IndexOfHash(s) + 1
    IN  IF i = 0 THEN s ELSE SubSeq(s, 1, i - 1) \o SubSeq(s, i + 1, Len(s))

\* var listenerHref = href && href.indexOf('#') == 0 ? href.replace('#', '') : ''
ListenerHref(href) ==
    IF Truthy(href) /\ IndexOfHash(href) = 0 THEN ReplaceHash(href) ELSE <<>>

\* var emitterId = listenerHref ? listenerHref : getAttribute(config.attribute)
\* (lines 121-127, read from the live element)
EmitterIdOf(el, mk, st) ==
    LET listenerHref == ListenerHref(GetAttribute(el, <<"href">>, mk, st))
    IN  IF Truthy(listenerHref) THEN listenerHref
        ELSE GetAttribute(el, config.attribute, mk, st)

\* emitterId ? document.getElementById(emitterId) : null
Resolve(emitterId, mk, st) ==
    IF Truthy(emitterId) THEN GetElementById(emitterId, mk, st) ELSE NULL

\* var emitter = emitterId ? document.getElementById(emitterId) : null
\* (line 128)
EmitterOf(el, mk, st) == Resolve(EmitterIdOf(el, mk, st), mk, st)

\* config.smoothScroll !== false && (listenerHref || href == '#')
WantsClick(el, mk, st) ==
    /\ config.smoothScroll # "false"
    /\ \/ Truthy(ListenerHref(GetAttribute(el, <<"href">>, mk, st)))
       \/ GetAttribute(el, <<"href">>, mk, st) = <<"#">>

\* The click handlers of an instance on the listener elements: how many
\* times scrollSmoothly is in the event listener list of each element
NoHandlers == [el \in 1 .. Len(ListenerElements) |-> 0]

\* A bug: the handler is a new function at every call, which the element
\* takes as one more event listener
AddEventListenerAgain(cb, el) == [cb EXCEPT ![el] = @ + 1]

\* foundListeners[f].addEventListener('click', scrollSmoothly) (line 139):
\* scrollSmoothly is one function per instance (line 326), and an element
\* does not take the same function twice
AddEventListener(cb, el) == IF cb[el] > 0 THEN cb ELSE [cb EXCEPT ![el] = 1]

HasEmitter(ems, id) == \E i \in 1 .. Len(ems) : ems[i].id = id

\* emitters[emitterId] = { element: emitter, active: false }: a known key
\* keeps its place in the enumeration order, a new key is added last
SetEmitter(ems, id, element) ==
    LET fresh == [id |-> id, element |-> element, active |-> FALSE]
    IN  IF HasEmitter(ems, id)
        THEN [i \in 1 .. Len(ems) |-> IF ems[i].id = id THEN fresh ELSE ems[i]]
        ELSE Append(ems, fresh)

\* Does the emitter element exist? (line 145)
RefreshKeeps(emitter) == emitter # NULL

\* Lines 130-159 for the found listener element el, its emitter id and its
\* emitter
RefreshEntry(acc, el, emitterId, emitter, wantsClick) ==
    LET bound == IF wantsClick THEN AddEventListener(acc.clickBound, el)
                 ELSE acc.clickBound
    IN  IF RefreshKeeps(emitter)
        THEN [listeners  |-> Append(acc.listeners,
                                   [element |-> el, emitterId |-> emitterId]),
              emitters   |-> SetEmitter(acc.emitters, emitterId, emitter),
              clickBound |-> bound]
        ELSE [acc EXCEPT !.clickBound = bound]

\* One turn of the loop of lines 119-160 for the found listener element el
RefreshStep(acc, el, mk, st) ==
    RefreshEntry(acc, el, EmitterIdOf(el, mk, st), EmitterOf(el, mk, st),
                 WantsClick(el, mk, st))

\* for (var f = foundListeners.length - 1; f >= 0; f--): the registry once
\* the elements found[Len(found)] down to found[f] have been processed
RECURSIVE RefreshLoop(_, _, _, _, _)
RefreshLoop(found, f, cb, mk, st) ==
    IF f > Len(found)
    THEN [listeners |-> <<>>, emitters |-> <<>>, clickBound |-> cb]
    ELSE LET acc == RefreshLoop(found, f + 1, cb, mk, st)
         IN  RefreshStep(acc, found[f], mk, st)

\* The registry refresh() leaves, before its call of update(), on a page
\* where update() has set the attribute config.attributeCurrent on the
\* elements mk and has removed it from the elements st
Rescan(ls, ems, cb, mk, st) ==
    LET foundListeners == QuerySelectorAll(mk, st)
    IN  IF Len(foundListeners) > 0
        THEN RefreshLoop(foundListeners, 1, cb, mk, st)
        ELSE [listeners |-> ls, emitters |-> ems, clickBound |-> cb]

(***************************************************************************)
(* update (scroll-reaction.js:171-264)                                      *)
(***************************************************************************)
\* var bottomPosition = windowBottomPosition - config.windowBottomOffset
BottomPosition == WindowBottomPosition - config.windowBottomOffset

RECURSIVE Gcd(_, _)
Gcd(a, b) == IF b = 0 THEN a ELSE Gcd(b, a % b)

\* A number as a fraction <<numerator, denominator>> in lowest terms
Fraction(n, d) ==
    LET g == Gcd(IF n < 0 THEN -n ELSE n, d) IN <<n \div g, d \div g>>

NaN == <<0, 0>>

\* A bug: the percentage without Math.min(..., 100)
StatusUnclamped(pos, wbp) ==
    IF wbp = 0 THEN (IF pos = 0 THEN NaN ELSE <<100, 1>>)
    ELSE IF wbp > 0 THEN Fraction(pos * 100, wbp)
         ELSE Fraction(-(pos * 100), -wbp)

\* Math.min((position / windowBottomPosition) * 100, 100) in IEEE arithmetic:
\* 0/0 is NaN and Math.min(NaN, 100) is NaN; p/0 is Infinity for p > 0
Status(pos, wbp) ==
    IF wbp = 0 THEN (IF pos = 0 THEN NaN ELSE <<100, 1>>)
    ELSE IF wbp > 0
         THEN (IF pos >= wbp THEN <<100, 1>> ELSE Fraction(pos * 100, wbp))
         ELSE Fraction(-(pos * 100), -wbp)

\* A bug: the callbacks are called last registered first
RECURSIVE EmitReversed(_, _)
EmitReversed(evs, name) ==
    IF evs = <<>> THEN <<>>
    ELSE EmitReversed(Tail(evs), name)
         \o (IF Head(evs).name = name THEN <<Head(evs).callback>> ELSE <<>>)

\* this.emit(name): the callbacks registered for name, in registration order
RECURSIVE Emit(_, _)
Emit(evs, name) ==
    IF evs = <<>> THEN <<>>
    ELSE (IF Head(evs).name = name THEN <<Head(evs).callback>> ELSE <<>>)
         \o Emit(Tail(evs), name)

\* A bug: the bottom offset is used whatever config.multiple is
MarginFromBottom ==
    [top    |-> Layouts[layout].innerHeight - OffsetBottom,
     bottom |-> OffsetTop]

\* var margin = { top: ..., bottom: offsetTop } (lines 208-211)
Margin ==
    [top    |-> IF config.multiple
                THEN Layouts[layout].innerHeight - OffsetBottom
                ELSE OffsetTop,
     bottom |-> OffsetTop]

\* A bug: the scroll offset is not added to the viewport coordinates
EmitterPositionRelative(id, pos) ==
    [top    |-> Max(BoundingClientRect(id).top - Margin.top, 0),
     bottom |-> Max(BoundingClientRect(id).bottom - Margin.bottom, 0)]

\* var emitterPosition (lines 217-220); pos is this.position
EmitterPosition(id, pos) ==
    [top    |-> Max(BoundingClientRect(id).top + pos - Margin.top, 0),
     bottom |-> Max(BoundingClientRect(id).bottom + pos - Margin.bottom, 0)]

\* A bug: no override at the bottom of the page
HasReachedNoBottom(id, pos) == pos >= EmitterPosition(id, pos).top

\* var hasReachedEmitter (line 224)
HasReachedEmitter(id, pos) ==
    pos >= EmitterPosition(id, pos).top \/ pos >= BottomPosition

\* var hasSurpassedEmitter (line 225)
HasSurpassedEmitter(id, pos) == pos > EmitterPosition(id, pos).bottom

\* A bug: the flag is never cleared, as if rewind were always off
ClassifyFlagKeep(em, pos) ==
    IF HasReachedEmitter(em.id, pos) /\ ~HasSurpassedEmitter(em.id, pos)
       /\ config.multiple
    THEN TRUE
    ELSE em.active

\* A bug: the flag is cleared whatever rewind says
ClassifyFlagClear(em, pos) ==
    IF HasReachedEmitter(em.id, pos) /\ ~HasSurpassedEmitter(em.id, pos)
       /\ config.multiple
    THEN TRUE
    ELSE FALSE

\* The flag the branches of lines 229-236 leave in emitter em
ClassifyFlag(em, pos) ==
    IF HasReachedEmitter(em.id, pos) /\ ~HasSurpassedEmitter(em.id, pos)
       /\ config.multiple
    THEN TRUE
    ELSE IF config.rewind THEN FALSE ELSE em.active

\* Lines 239-242: the lowest emitter element reached so far
TrackLast(last, id, pos) ==
    IF HasReachedEmitter(id, pos) /\ EmitterPosition(id, pos).top > last.position
    THEN [id |-> id, position |-> EmitterPosition(id, pos).top]
    ELSE last

\* for (var e in emitters) (lines 214-243): the flags and lastEmitter once
\* the first e emitters (in enumeration order) have been processed
RECURSIVE ClassifyLoop(_, _, _)
ClassifyLoop(ems, e, pos) ==
    IF e = 0
    THEN [emitters |-> ems, lastEmitter |-> [id |-> NULL, position |-> -1]]
    ELSE LET acc == ClassifyLoop(ems, e - 1, pos)
         IN  [emitters    |-> [acc.emitters EXCEPT
                                 ![e].active = ClassifyFlag(ems[e], pos)],
              lastEmitter |-> TrackLast(acc.lastEmitter, ems[e].id, pos)]

\* A bug: the lowest reached emitter is not forced active
ForceLastNever(ems, last) == ems

\* Lines 246-248: if (lastEmitter.id) emitters[lastEmitter.id].active = true
ForceLast(ems, last) ==
    IF Truthy(last.id)
    THEN [i \in 1 .. Len(ems) |->
            IF ems[i].id = last.id THEN [ems[i] EXCEPT !.active = TRUE] ELSE ems[i]]
    ELSE ems

\* The emitter flags after lines 213-248
Classify(ems, pos) ==
    LET r == ClassifyLoop(ems, Len(ems), pos)
    IN  ForceLast(r.emitters, r.lastEmitter)

EmitterActive(ems, id) ==
    \E i \in 1 .. Len(ems) : ems[i].id = id /\ ems[i].active

\* A bug: the attribute is set and never removed
ReconcileAddOnly(mk, listener, ems) ==
    IF EmitterActive(ems, listener.emitterId)
    THEN mk \cup {listener.element}
    ELSE mk

\* A bug: toggleAttribute in place of setAttribute
ReconcileToggle(mk, listener, ems) ==
    IF EmitterActive(ems, listener.emitterId)
    THEN (IF listener.element \in mk THEN mk \ {listener.element}
          ELSE mk \cup {listener.element})
    ELSE mk \ {listener.element}

\* Lines 256-262 for one listener: setAttribute or removeAttribute
Reconcile(mk, listener, ems) ==
    IF EmitterActive(ems, listener.emitterId)
    THEN mk \cup {listener.element}
    ELSE mk \ {listener.element}

\* Lines 256-262 for one listener: the elements that have lost an attribute
\* config.attributeCurrent they had before any update()
Strip(st, listener, ems) ==
    IF EmitterActive(ems, listener.emitterId)
    THEN st \ {listener.element}
    ELSE IF Before(listener.element, config.attributeCurrent) # NULL
         THEN st \cup {listener.element}
         ELSE st

\* One turn of the loop of lines 250-263: reading .active of an emitter that
\* is not in emitters throws a TypeError, which ends the loop
ReconcileStep(acc, listener, ems) ==
    IF acc.thrown THEN acc
    ELSE IF ~HasEmitter(ems, listener.emitterId)
         THEN [acc EXCEPT !.thrown = TRUE]
         ELSE [acc EXCEPT !.marked = Reconcile(@, listener, ems),
                          !.stripped = Strip(@, listener, ems)]

\* for (var l in listeners) (lines 250-263), once the first l listeners have
\* been processed
RECURSIVE ReconcileLoop(_, _, _, _, _)
ReconcileLoop(ls, l, ems, mk, st) ==
    IF l = 0 THEN [marked |-> mk, stripped |-> st, thrown |-> FALSE]
    ELSE ReconcileStep(ReconcileLoop(ls, l - 1, ems, mk, st), ls[l], ems)

\* A bug: no early return, the loops run whatever attributeCurrent is
MarkerAlways == TRUE

\* if (!config.attributeCurrent) return (line 195)
MarkerEnabled == Truthy(config.attributeCurrent)

\* A bug: the callbacks run at the end of the pass
SeenAfterReconcile(pos, st, mk, mk2) ==
    << [position |-> pos, status |-> st, marked |-> mk2] >>

\* What an 'update' callback run by line 191 finds: this.position and
\* this.status as lines 185-188 set them (pos, st), and the marker on the
\* elements mk that carried it when the pass began, not on the elements mk2
\* that carry it when the pass ends
SeenAtEmit(pos, st, mk, mk2) ==
    << [position |-> pos, status |-> st, marked |-> mk] >>

\* Lines 184-263 once the loop of lines 213-248 has left the flags ems2; the
\* call of line 198 may throw
PassWith(ls, ems, ems2, mk, st0) ==
    LET st    == Status(scrollY, WindowBottomPosition)
        loops == MarkerEnabled /\ ~OffsetTopThrows
    IN  CHOOSE r \in
          { [position |-> scrollY,
             status   |-> st,
             fired    |-> Emit(events, "update"),
             seen     |-> IF Emit(events, "update") = <<>> THEN <<>>
                          ELSE SeenAtEmit(scrollY, st, mk, rec.marked),
             emitters |-> IF loops THEN ems2 ELSE ems,
             marked   |-> IF loops THEN rec.marked ELSE mk,
             stripped |-> IF loops THEN rec.stripped ELSE st0,
             thrown   |-> IF ~MarkerEnabled THEN FALSE
                          ELSE IF OffsetTopThrows THEN TRUE
                          ELSE rec.thrown] :
              rec \in { ReconcileLoop(ls, Len(ls), ems2, mk, st0) } } : TRUE

\* update() on the registry (ls, ems), the elements mk carrying the marker
\* and the elements st0 having lost it: what it leaves in the instance and
\* on the elements
Pass(ls, ems, mk, st0) ==
    CHOOSE r \in { PassWith(ls, ems, ems2, mk, st0) :
                      ems2 \in { Classify(ems, scrollY) } } : TRUE

(***************************************************************************)
(* The instance after construction, and its operations                      *)
(***************************************************************************)
\* new ScrollReaction(userConfig) on a loaded page: lines 41-47 merge the
\* config, init() (line 376) runs refresh(), which ends with update().
\* Construct: the instance on the page and with the config chosen before it.
Constructing ==
    /\ events = <<>>
    /\ \E reg \in { Rescan(<<>>, <<>>, NoHandlers, {}, {}) } :
       \E r \in { Pass(reg.listeners, reg.emitters, {}, {}) } :
           /\ marked = r.marked
           /\ stripped = r.stripped
           /\ listeners = reg.listeners
           /\ clickBound = reg.clickBound
           /\ emitters = r.emitters
           /\ position = r.position
           /\ status = r.status
           /\ fired = r.fired
           /\ seen = r.seen
           /\ thrown = r.thrown
           /\ instance = ~r.thrown
    /\ lastPass = "init"
    /\ geoChanged = FALSE
    /\ docChanged = FALSE

\* The constructor ended by an exception before any element was touched
\* (the TypeError of line 50, the SyntaxError of line 110): no instance
\* exists, nothing was registered
ConstructFailed ==
    /\ events = <<>>
    /\ listeners = <<>>
    /\ emitters = <<>>
    /\ clickBound = NoHandlers
    /\ marked = {}
    /\ stripped = {}
    /\ position = 0
    /\ status = <<0, 1>>
    /\ fired = <<>>
    /\ seen = <<>>
    /\ thrown = TRUE
    /\ instance = FALSE
    /\ lastPass = "none"
    /\ geoChanged = FALSE
    /\ docChanged = FALSE

\* new ScrollReaction(userConfig) once lines 41-60 have resolved the config
Construct == IF QueryThrows THEN ConstructFailed ELSE Constructing

\* The window events init() attaches a debounced handler to (lines 94-95)
DebouncedEvents == { "resize", "orientationchange" }

\* defer(this.update, this, 200, true) (lines 94-95) before its first call,
\* for each of the two events: var deferTimer and the browser's pending
\* timeouts of this wrapper
NoDebounced == [e \in DebouncedEvents |-> [deferTimer |-> 0, timers |-> {}]]

\* defer(this.update, this, config.throttleDelay, false) (line 100) before
\* its first call
ScrollLimiter ==
    /\ interval = config.throttleDelay
    /\ debounce = FALSE
    /\ lastTime = <<>>
    /\ deferTimer = 0
    /\ queued = {}
    /\ debounced = NoDebounced
    /\ again = <<>>
    /\ timers = {}
    /\ now = 1
    /\ history = <<>>

\* The state kept for a second instance while there is none
NoInstance ==
    [ userConfig |-> EmptyConfig, config |-> DefaultConfig, listeners |-> <<>>,
      emitters |-> <<>>, events |-> <<>>, position |-> 0, status |-> <<0, 1>>,
      clickBound |-> NoHandlers, fired |-> <<>>, seen |-> <<>>,
      thrown |-> FALSE, lastPass |-> "none" ]

\* One instance alone on the page
Single ==
    /\ other = NoInstance
    /\ turn = 0
    /\ pending = "none"

\* A browser with native smooth scrolling, at a URL without fragment
PlainBrowser ==
    /\ url = <<"u">>
    /\ scrollCall = <<>>
    /\ activeElement = NULL
    /\ tabindex = {}
    /\ scrollBehavior = TRUE
    /\ scrollOptions = TRUE
    /\ reducedMotion = FALSE
    /\ fromElement = <<>>

Init ==
    /\ userConfig \in UserConfigs
    /\ config = ResolveConfig(userConfig)
    /\ layout \in 1 .. Len(Layouts)
    /\ scrollY \in ScrollRange(layout)
    /\ docListeners = 1 .. Len(ListenerElements)
    /\ docIds \in IdSets
    /\ Construct
    /\ ScrollLimiter
    /\ PlainBrowser
    /\ Single

\* An operation other than scrollTo: the last scrollTo call is no longer the
\* last operation
Stale(call) == [i \in 1 .. Len(call) |-> [call[i] EXCEPT !.last = FALSE]]

\* Scrolling by hand ends a pending animated scroll
Cancelled(call) ==
    [i \in 1 .. Len(call) |-> [call[i] EXCEPT !.last = FALSE, !.pending = FALSE]]

NavIdle ==
    /\ scrollCall' = Stale(scrollCall)
    /\ UNCHANGED <<url, activeElement, tabindex, scrollBehavior, scrollOptions, reducedMotion,
                   fromElement>>

NavCancel ==
    /\ scrollCall' = Cancelled(scrollCall)
    /\ UNCHANGED <<url, activeElement, tabindex, scrollBehavior, scrollOptions, reducedMotion,
                   fromElement>>

\* this.update()
DoUpdate ==
    \E r \in { Pass(listeners, emitters, marked, stripped) } :
        /\ emitters' = r.emitters
        /\ marked' = r.marked
        /\ stripped' = r.stripped
        /\ position' = r.position
        /\ status' = r.status
        /\ fired' = r.fired
        /\ seen' = r.seen
        /\ thrown' = r.thrown
        /\ lastPass' = IF lastPass = "none" THEN "update" ELSE "repeat"
        /\ geoChanged' = FALSE
        /\ UNCHANGED <<config, userConfig, instance, listeners, events, scrollY, layout, docListeners,
                       docIds, clickBound, docChanged>>

\* refresh() from line 113 on
Rescanned ==
    \E reg \in { Rescan(listeners, emitters, clickBound, marked, stripped) } :
    \E r \in { Pass(reg.listeners, reg.emitters, marked, stripped) } :
        /\ listeners' = reg.listeners
        /\ clickBound' = reg.clickBound
        /\ emitters' = r.emitters
        /\ marked' = r.marked
        /\ stripped' = r.stripped
        /\ position' = r.position
        /\ status' = r.status
        /\ fired' = r.fired
        /\ seen' = r.seen
        /\ thrown' = r.thrown
        /\ lastPass' = IF lastPass \in {"init", "refresh", "refreshed"}
                       THEN "refreshed" ELSE "refresh"
        /\ geoChanged' = FALSE
        /\ UNCHANGED <<config, userConfig, instance, events, scrollY, layout, docListeners, docIds,
                       docChanged>>

\* refresh() ended at line 110 by the SyntaxError of the selector: nothing
\* has changed
RefreshThrows ==
    /\ fired' = <<>>
    /\ seen' = <<>>
    /\ thrown' = TRUE
    /\ lastPass' = "none"
    /\ UNCHANGED <<config, userConfig, instance, listeners, emitters, events, position,
                   status, scrollY, layout, docListeners, docIds, marked, stripped,
                   clickBound, geoChanged, docChanged>>

\* this.refresh(): the scan of lines 110-161, then this.update() (line 165)
DoRefresh == IF QueryThrows THEN RefreshThrows ELSE Rescanned

\* this.on(name, callback) with a function as callback (lines 349-358)
Register(name) ==
    /\ LET callback == Len(events) + 1
       IN  /\ events' = Append(events, [name |-> name, callback |-> callback])
           /\ fired' = IF name = "update" THEN <<callback>> ELSE <<>>
           /\ seen' = IF name = "update"
                      THEN << [position |-> position, status |-> status,
                               marked |-> marked] >>
                      ELSE <<>>
    /\ thrown' = FALSE
    /\ lastPass' = "none"
    /\ UNCHANGED <<config, userConfig, instance, listeners, emitters, position, status, scrollY, layout,
                   docListeners, docIds, marked, stripped, clickBound, geoChanged, docChanged>>

\* this.emit(name) called by the page's script (lines 365-373): the
\* callbacks registered for name run, on the instance as it is; no pass runs
DoEmit(name) ==
    /\ fired' = Emit(events, name)
    /\ seen' = IF Emit(events, name) = <<>> THEN <<>>
               ELSE << [position |-> position, status |-> status,
                        marked |-> marked] >>
    /\ thrown' = FALSE
    /\ lastPass' = "none"
    /\ UNCHANGED <<config, userConfig, instance, listeners, emitters, events, position, status, scrollY,
                   layout, docListeners, docIds, marked, stripped, clickBound, geoChanged, docChanged>>

\* on() while fewer than MaxEvents callbacks are registered
DoOn(name) == Len(events) < MaxEvents /\ Register(name)

\* The user scrolls the window towards offset p: the browser stops at the
\* end of the page, and a window that does not move fires no scroll event
\* (the rate-limited handler of line 100 runs update() later)
DoScroll(p) ==
    /\ Clamp(p, layout) # scrollY
    /\ scrollY' = Clamp(p, layout)
    /\ fired' = <<>>
    /\ seen' = <<>>
    /\ thrown' = FALSE
    /\ lastPass' = "none"
    /\ UNCHANGED <<config, userConfig, instance, listeners, emitters, events, position, status, layout,
                   docListeners, docIds, marked, stripped, clickBound, geoChanged, docChanged>>

\* The window is resized: the page is laid out as Layouts[l], the browser
\* keeps the scroll offset within the new range
DoResize(l) ==
    /\ l # layout
    /\ layout' = l
    /\ scrollY' = Min(scrollY, ScrollMax(l))
    /\ geoChanged' = TRUE
    /\ fired' = <<>>
    /\ seen' = <<>>
    /\ thrown' = FALSE
    /\ lastPass' = "none"
    /\ UNCHANGED <<config, userConfig, instance, listeners, emitters, events, position, status,
                   docListeners, docIds, marked, stripped, clickBound, docChanged>>

\* The page's script rewrites the document: the listener elements S and the
\* emitter elements ids are the ones it holds afterwards
DoMutate(S, ids) ==
    /\ <<S, ids>> # <<docListeners, docIds>>
    /\ docListeners' = S
    /\ docIds' = ids
    /\ docChanged' = TRUE
    /\ geoChanged' = TRUE
    /\ fired' = <<>>
    /\ seen' = <<>>
    /\ thrown' = FALSE
    /\ lastPass' = "none"
    /\ UNCHANGED <<config, userConfig, instance, listeners, emitters, events, position, status, scrollY,
                   layout, marked, stripped, clickBound>>

\* An operation of the instance while its rate limiter rests, no scrollTo is
\* under way and no other instance takes part
Idle == UNCHANGED deferVars /\ NavIdle /\ UNCHANGED pairVars

Update == DoUpdate /\ Idle

Refresh == DoRefresh /\ Idle

On(name) == DoOn(name) /\ Idle

\* What the 'click' callbacks cbs of the page's script do when they run: they
\* collapse the element offsetFrom selects, fe, to a height of 1
AfterClickCallbacks(fe, cbs) ==
    IF cbs = <<>> \/ fe = <<>> THEN fe ELSE <<1>>

\* emit(name) called by the page's script; the 'click' callbacks do what
\* they do when a click runs them
EmitCall(name) ==
    /\ DoEmit(name)
    /\ fromElement' = IF name = "click"
                      THEN AfterClickCallbacks(fromElement, Emit(events, name))
                      ELSE fromElement
    /\ scrollCall' = Stale(scrollCall)
    /\ UNCHANGED <<url, activeElement, tabindex, scrollBehavior, scrollOptions, reducedMotion>>
    /\ UNCHANGED deferVars
    /\ UNCHANGED pairVars

\* The most calls of init() after the constructor
MaxInits == 1

\* The rate limiters one call of init() attaches (lines 94-100), each
\* before its first call: var lastTime, var deferTimer (lines 700-701) and
\* the browser's pending timeouts of the wrapper
FreshHandlers ==
    [e \in {"scroll"} \cup DebouncedEvents |->
        [lastTime |-> <<>>, deferTimer |-> 0, timers |-> {}]]

\* this.init() called on the instance (line 87): refresh() runs, and
\* unless it throws three more handlers are attached to window, each
\* function defer returns being a new one
InitCall ==
    /\ Len(again) < MaxInits
    /\ DoRefresh
    /\ again' = IF thrown' THEN again ELSE Append(again, FreshHandlers)
    /\ UNCHANGED <<interval, debounce, lastTime, deferTimer, timers, now,
                   history, queued, debounced, pairVars>>
    /\ NavIdle

Scroll(p) == DoScroll(p) /\ UNCHANGED deferVars /\ NavCancel /\ UNCHANGED pairVars

Resize(l) == DoResize(l) /\ Idle

Mutate(S, ids) == DoMutate(S, ids) /\ Idle

Next ==
    \/ Update
    \/ Refresh
    \/ On("update")
    \/ EmitCall("update")
    \/ \E p \in ScrollRange(layout) : Scroll(p)
    \/ \E l \in 1 .. Len(Layouts) : Resize(l)
    \/ \E S \in ListenerSets, ids \in IdSets : Mutate(S, ids)

Spec == Init /\ [][Next]_vars

(***************************************************************************)
(* scrollTo and scrollSmoothly (scroll-reaction.js:271-339)                 *)
(***************************************************************************)
\* The URLs the page is opened at: without fragment, with the fragment #a,
\* with an empty fragment
Urls == { <<"u">>, <<"u", "#", "a">>, <<"u", "#">> }

\* The ids scrollTo is called with: none (<<>>), the emitter elements, an id
\* no element has
NavIds == ElementIds \cup { <<>>, <<"x">> }

\* Elements that take the focus as they are (the others need a tabindex)
FocusableIds == { <<"a">> }

\* The part of a URL before its first '#'
BeforeHash(u) ==
    IF IndexOfHash(u) = -1 THEN u ELSE SubSeq(u, 1, IndexOfHash(u))

\* window.location.hash: '#' and the fragment, '' when the URL has no
\* fragment or an empty one
LocationHash(u) ==
    IF IndexOfHash(u) = -1 \/ IndexOfHash(u) = Len(u) - 1
    THEN <<>>
    ELSE SubSeq(u, IndexOfHash(u) + 1, Len(u))

\* s.replace(pattern, '') for a string pattern: s without the first
\* occurrence of pattern (the empty pattern matches at index 0)
RemoveFirst(s, pattern) ==
    LET n == Len(pattern)
        hits == { i \in 1 .. Len(s) - n + 1 : SubSeq(s, i, i + n - 1) = pattern }
    IN  IF n = 0 \/ hits = {} THEN s
        ELSE LET i == CHOOSE h \in hits : \A g \in hits : h <= g
             IN  SubSeq(s, 1, i - 1) \o SubSeq(s, i + n, Len(s))

\* The URL a relative or absolute reference resolves to: a reference that
\* starts with '#' replaces the fragment of the current URL
ResolveUrl(base, ref) ==
    IF ref # <<>> /\ ref[1] = "#" THEN BeforeHash(base) \o ref ELSE ref

\* A bug: the history is left alone
UrlAfterKept(u, id) == u

\* Lines 299-305: the URL after window.history.replaceState(null, null,
\* id ? '#' + id : currentUrl)
UrlAfter(u, id) ==
    LET currentUrl == RemoveFirst(u, LocationHash(u))
    IN  ResolveUrl(u, IF Truthy(id) THEN <<"#">> \o id ELSE currentUrl)

\* var element = id ? document.getElementById(id) : null (line 273)
ScrollTarget(id) == IF Truthy(id) THEN GetElementById(id, marked, stripped) ELSE NULL

\* A bug: the destination is computed whether or not the element exists
EndPositionUnchecked(id, fe) ==
    BoundingClientRect(id).top + position - OffsetTopAt(fe) + 1

\* var endPosition (lines 275-287), the element offsetFrom selects being fe
EndPosition(id, fe) ==
    IF ScrollTarget(id) # NULL
    THEN BoundingClientRect(id).top + position - OffsetTopAt(fe) + 1
    ELSE 0

\* var supportsSmoothScrolling (line 66)
SupportsSmoothScrolling == config.smoothScroll = "auto" /\ scrollBehavior

\* A bug: the reduced motion media query is not consulted
ScrollsSmoothlyDespiteMotion ==
    SupportsSmoothScrolling \/ config.smoothScroll = "true"

\* (supportsSmoothScrolling || config.smoothScroll === true) && userAllowsMotion
ScrollsSmoothly ==
    (SupportsSmoothScrolling \/ config.smoothScroll = "true") /\ ~reducedMotion

\* scrollTo(id) ends with the TypeError of the call of line 281: the element
\* exists and the function of lines 56-59 finds no element to measure
ScrollToThrows(id, fe) == ScrollTarget(id) # NULL /\ OffsetTopThrowsAt(fe)

\* window.scrollTo({ top: ..., left: 0, behavior: 'smooth' }) (line 314)
\* raises a TypeError: the smooth branch is taken in a browser whose
\* window.scrollTo takes two numbers only (smoothScroll: true without native
\* support and without a polyfill)
ScrollRequestRaises == ScrollsSmoothly /\ ~scrollOptions

\* this.scrollTo(id): what it leaves in the browser
NavResult(id, fe, via) ==
  IF ScrollToThrows(id, fe)
  THEN
    [ url           |-> url,
      activeElement |-> activeElement,
      tabindex      |-> tabindex,
      scrollCall    |-> Stale(scrollCall),
      scrollY       |-> scrollY,
      thrown        |-> TRUE ]
  ELSE IF ScrollRequestRaises
  THEN
    [ url           |-> UrlAfter(url, id),
      activeElement |-> IF ScrollTarget(id) # NULL THEN id ELSE activeElement,
      tabindex      |-> IF ScrollTarget(id) # NULL /\ id \notin FocusableIds
                        THEN tabindex \cup {id} ELSE tabindex,
      scrollCall    |-> Stale(scrollCall),
      scrollY       |-> scrollY,
      thrown        |-> TRUE ]
  ELSE
    [ url           |-> UrlAfter(url, id),
      activeElement |-> IF ScrollTarget(id) # NULL THEN id ELSE activeElement,
      tabindex      |-> IF ScrollTarget(id) # NULL /\ id \notin FocusableIds
                        THEN tabindex \cup {id} ELSE tabindex,
      scrollCall    |-> << [ id       |-> id,
                             href     |-> url,
                             via      |-> via,
                             top      |-> EndPosition(id, fe),
                             behavior |-> IF ScrollsSmoothly THEN "smooth" ELSE "auto",
                             pending  |-> ScrollsSmoothly,
                             last     |-> TRUE ] >>,
      scrollY       |-> IF ScrollsSmoothly THEN scrollY
                        ELSE Clamp(EndPosition(id, fe), layout),
      thrown        |-> FALSE ]

\* this.scrollTo(id) (lines 271-319)
DoScrollTo(id) ==
    \E r \in { NavResult(id, fromElement, "call") } :
        /\ url' = r.url
        /\ activeElement' = r.activeElement
        /\ tabindex' = r.tabindex
        /\ scrollCall' = r.scrollCall
        /\ scrollY' = r.scrollY
        /\ fired' = <<>>
        /\ seen' = <<>>
        /\ thrown' = r.thrown
        /\ lastPass' = "none"
        /\ UNCHANGED <<config, userConfig, instance, listeners, emitters, events, position,
                       status, layout, docListeners, docIds, marked, stripped, clickBound,
                       geoChanged, docChanged, scrollBehavior, scrollOptions,
                       reducedMotion, fromElement>>

\* scrollTo(id) called by the page's script on the only instance
ScrollTo(id) == DoScrollTo(id) /\ UNCHANGED <<deferVars, pairVars>>

\* A bug: the destination is computed before the callbacks run
SeenByScrollToEarly(fe, cbs) == fe

\* The element offsetFrom selects as self.scrollTo(id) (line 338) finds it:
\* self.emit('click') (line 335) has returned
SeenByScrollTo(fe, cbs) == AfterClickCallbacks(fe, cbs)

\* s, n times in a row
Repeated(s, n) == [i \in 1 .. n * Len(s) |-> s[((i - 1) % Len(s)) + 1]]

\* The scrollTo calls of the n runs of scrollSmoothly one click leads to,
\* r being what one call leaves: a later run finds the URL of the first
\* and supersedes its scroll
HandlerRuns(r, n) ==
    [i \in 1 .. n |->
        [r.scrollCall[1] EXCEPT !.href = IF i = 1 THEN @ ELSE r.url,
                                !.last = (i = n),
                                !.pending = @ /\ i = n]]

\* this.getAttribute('href') (line 328), read from the live element
ClickHref(el) == GetAttribute(el, <<"href">>, marked, stripped)

\* scrollSmoothly ended at line 328 by a TypeError: the element has no href
\* any more (update() has removed it, the marker being named href)
ClickThrows ==
    /\ fired' = <<>>
    /\ seen' = <<>>
    /\ thrown' = TRUE
    /\ lastPass' = "none"
    /\ scrollCall' = Stale(scrollCall)
    /\ UNCHANGED <<config, userConfig, instance, listeners, emitters, events, position,
                   status, scrollY, layout, docListeners, docIds, marked, stripped,
                   clickBound, geoChanged, docChanged, url, activeElement, tabindex,
                   scrollBehavior, scrollOptions, reducedMotion, fromElement>>

\* scrollSmoothly from line 331 on
Clicked(el) ==
    /\ \E r \in { NavResult(ReplaceHash(ClickHref(el)),
                            SeenByScrollTo(fromElement, Emit(events, "click")),
                            "click") } :
        /\ fromElement' = AfterClickCallbacks(fromElement, Emit(events, "click"))
        /\ url' = r.url
        /\ activeElement' = r.activeElement
        /\ tabindex' = r.tabindex
        /\ scrollCall' = IF r.thrown THEN r.scrollCall
                        ELSE HandlerRuns(r, clickBound[el])
        /\ scrollY' = r.scrollY
        /\ fired' = Repeated(Emit(events, "click"), clickBound[el])
        /\ seen' = IF Emit(events, "click") = <<>> THEN <<>>
                   ELSE << [position |-> position, status |-> status,
                            marked |-> marked] >>
        /\ thrown' = r.thrown
        /\ lastPass' = "none"
        /\ UNCHANGED <<config, userConfig, instance, listeners, emitters, events, position,
                       status, layout, docListeners, docIds, marked, stripped, clickBound,
                       geoChanged, docChanged, scrollBehavior, scrollOptions,
                       reducedMotion>>

\* scrollSmoothly (lines 326-339): the user clicks on the listener element
\* el, which has the click handler attached; the browser runs every entry
\* of the element's event listener list
DoClick(el) ==
    /\ clickBound[el] > 0
    /\ el \in docListeners
    /\ IF ClickHref(el) = NULL THEN ClickThrows ELSE Clicked(el)

\* A click on a page with one instance
Click(el) == DoClick(el) /\ UNCHANGED <<deferVars, pairVars>>

\* The browser completes the animated scroll it was asked for
Animate ==
    /\ scrollCall # <<>>
    /\ scrollCall[1].pending
    /\ scrollY' = Clamp(scrollCall[1].top, layout)
    /\ scrollCall' = Cancelled(scrollCall)
    /\ fired' = <<>>
    /\ seen' = <<>>
    /\ thrown' = FALSE
    /\ lastPass' = "none"
    /\ UNCHANGED <<config, userConfig, instance, listeners, emitters, events, position, status, layout,
                   docListeners, docIds, marked, stripped, clickBound, geoChanged,
                   docChanged, url, activeElement, tabindex, scrollBehavior, scrollOptions,
                   reducedMotion, fromElement, deferVars, pairVars>>

\* The configs explored with scrollTo
NavConfigs ==
    [ offsetTop          : { 1 },
      offsetBottom       : { 1 },
      smoothScroll       : { "auto", "true", "false" },
      windowBottomOffset : { 0 } ]

\* An instance on a page loaded at some scroll offset and URL, in a browser
\* with or without native smooth scrolling, for a user who has or has not
\* asked for reduced motion
NavInit ==
    /\ userConfig \in NavConfigs
    /\ config = ResolveConfig(userConfig)
    /\ layout = 1
    /\ scrollY \in ScrollRange(layout)
    /\ docListeners = 1 .. Len(ListenerElements)
    /\ docIds \in IdSets
    /\ Construct
    /\ ScrollLimiter
    /\ url \in Urls
    /\ scrollCall = <<>>
    /\ activeElement = NULL
    /\ tabindex = {}
    /\ scrollBehavior \in BOOLEAN
    /\ scrollOptions = TRUE
    /\ reducedMotion \in BOOLEAN
    /\ fromElement = <<>>
    /\ Single

NavNext ==
    \/ \E id \in NavIds : ScrollTo(id)
    \/ \E el \in 1 .. Len(ListenerElements) : Click(el)
    \/ Animate
    \/ Update
    \/ On("click")
    \/ EmitCall("click")

NavSpec == NavInit /\ [][NavNext]_vars

(***************************************************************************)
(* defer (scroll-reaction.js:700-725): the rate limiter on its own, with    *)
(* the clock and the timeouts of the browser.  Times are in ms.             *)
(***************************************************************************)
\* The intervals explored
Intervals == { 2, 3 }

\* JavaScript truthiness of lastTime (undefined and 0 are falsy)
TruthyTime(lt) == lt # <<>> /\ lt[1] # 0

\* A bug: throttle mode never defers
ShouldDeferDebounceOnly(db, lt, t, iv) == db

\* A bug: the debounce flag is ignored
ShouldDeferThrottleOnly(db, lt, t, iv) == TruthyTime(lt) /\ t < lt[1] + iv

\* debounce || (lastTime && now < lastTime + interval) (line 708)
ShouldDefer(db, lt, t, iv) == db \/ (TruthyTime(lt) /\ t < lt[1] + iv)

\* A bug: the pending timeout is not cancelled
ClearTimeoutNever(ts, id) == ts

\* clearTimeout(id): the pending timeout with this id, if any, is cancelled
ClearTimeout(ts, id) == { tm \in ts : tm.id # id }

\* A bug: no timeout is set for a deferred call
SetTimeoutNever(ts, id, t, iv) == ts

\* setTimeout(function() {...}, interval) called at time t; the function
\* closes over now = t (lines 712-717)
SetTimeout(ts, id, t, iv) == ts \cup { [id |-> id, due |-> t + iv, now |-> t] }

CallEntry(t) == [kind |-> "call", time |-> t, sync |-> FALSE]
ExecEntry(t, sync) == [kind |-> "exec", time |-> t, sync |-> sync]

\* A new rate limiter, of either mode, for an instance on a page without
\* listener elements
DeferInit ==
    /\ userConfig = [multiple |-> FALSE]
    /\ config = ResolveConfig(userConfig)
    /\ layout = 1
    /\ scrollY = 0
    /\ docListeners = {}
    /\ docIds = {}
    /\ Construct
    /\ interval \in Intervals
    /\ debounce \in BOOLEAN
    /\ lastTime = <<>>
    /\ deferTimer = 0
    /\ queued = {}
    /\ debounced = NoDebounced
    /\ again = <<>>
    /\ timers = {}
    /\ now = 1
    /\ history = <<>>
    /\ PlainBrowser
    /\ Single

NumCalls == Cardinality({ i \in 1 .. Len(history) : history[i].kind = "call" })

\* The function returned by defer is called (lines 703-724)
Call ==
    /\ NumCalls < MaxCalls
    /\ now + interval <= MaxTime
    /\ IF ShouldDefer(debounce, lastTime, now, interval)
       THEN /\ timers' = SetTimeout(ClearTimeout(timers, deferTimer),
                                    deferTimer + 1, now, interval)
            /\ deferTimer' = deferTimer + 1
            /\ history' = Append(history, CallEntry(now))
            /\ UNCHANGED lastTime
       ELSE /\ lastTime' = <<now>>
            /\ history' = history \o << CallEntry(now), ExecEntry(now, TRUE) >>
            /\ UNCHANGED <<timers, deferTimer>>
    /\ UNCHANGED <<interval, debounce, now, queued, debounced, again, instanceVars,
                   navVars, pairVars>>

\* A pending timeout that is due runs its function (lines 712-717)
Fire(tm) ==
    /\ tm \in timers
    /\ now >= tm.due
    /\ timers' = timers \ {tm}
    /\ lastTime' = <<tm.now>>
    /\ history' = Append(history, ExecEntry(now, FALSE))
    /\ UNCHANGED <<interval, debounce, deferTimer, now, queued, debounced, again,
                   instanceVars, navVars, pairVars>>

\* A millisecond passes
Tick ==
    /\ now < MaxTime
    /\ now' = now + 1
    /\ UNCHANGED <<interval, debounce, lastTime, deferTimer, timers, history,
                   queued, debounced, again,
                   instanceVars, navVars, pairVars>>

DeferNext ==
    \/ Call
    \/ \E tm \in timers : Fire(tm)
    \/ Tick

DeferSpec == DeferInit /\ [][DeferNext]_vars

\* Time passes and a due timeout eventually runs
DeferLive ==
    DeferSpec /\ WF_vars(Tick) /\ WF_vars(\E tm \in timers : Fire(tm))

(***************************************************************************)
(* Vocabulary of the properties                                             *)
(***************************************************************************)
\* The last operation was a classification pass (update(), alone or as the
\* last step of refresh()): position is the current scroll offset and the
\* page is as the pass saw it.
AfterPass == lastPass # "none"

\* The last operation was refresh() (or the constructor, which runs it)
AfterRefresh == lastPass \in {"init", "refresh", "refreshed"}

\* The active marker is enabled (attributeCurrent is a non-empty string)
Marking == Truthy(config.attributeCurrent)

\* Single-active and multiple-active mode with the marker enabled
SingleMode == ~config.multiple /\ Marking
MultipleMode == config.multiple /\ Marking

Registered == { emitters[i].id : i \in 1 .. Len(emitters) }
ActiveIds == { emitters[i].id : i \in { j \in 1 .. Len(emitters) : emitters[j].active } }

\* Document coordinate of an emitter element's edge as a pass at scroll
\* offset pos sees it (an element outside the document has a box of zeros,
\* which the pass places at the scroll offset itself)
DocTop(id, pos) == IF id \in docIds THEN Layouts[layout].top[id] ELSE pos
DocBottom(id, pos) == IF id \in docIds THEN Layouts[layout].bottom[id] ELSE pos

\* Trigger position of an emitter: its top edge minus the configured margin
TriggerTop(id, pos) ==
    Max(DocTop(id, pos)
          - (IF config.multiple
             THEN Layouts[layout].innerHeight - OffsetBottom
             ELSE OffsetTop), 0)

\* Where an emitter's span ends: its bottom edge minus the top offset
SpanEnd(id, pos) == Max(DocBottom(id, pos) - OffsetTop, 0)

\* An emitter is reached at scroll offset pos
Reached(id, pos) ==
    \/ pos >= TriggerTop(id, pos)
    \/ pos >= WindowBottomPosition - config.windowBottomOffset

ReachedIds(pos) == { id \in Registered : Reached(id, pos) }

\* The reached emitters with the greatest trigger position
LowestReached(pos) ==
    { w \in ReachedIds(pos) :
        \A o \in ReachedIds(pos) : TriggerTop(o, pos) <= TriggerTop(w, pos) }

\* Reached and not yet surpassed
InSpan(pos) == { id \in ReachedIds(pos) : ~(pos > SpanEnd(id, pos)) }

(***************************************************************************)
(* Properties                                                               *)
(***************************************************************************)
\* C1: in single-active mode with rewind on, after every classification
\* pass no emitter is flagged active if none has been reached; otherwise
\* exactly one emitter is flagged active, and it is a reached emitter with
\* the greatest trigger position.
C1_SingleActive ==
    (AfterPass /\ SingleMode /\ config.rewind) =>
        IF ReachedIds(position) = {}
        THEN ActiveIds = {}
        ELSE \E w \in LowestReached(position) : ActiveIds = {w}

\* A pass below the bottom threshold that found two emitters reached and a
\* third one not, and left exactly one active.
C1_Witness ==
    /\ lastPass = "update" /\ SingleMode /\ config.rewind
    /\ position < BottomPosition
    /\ Cardinality(ReachedIds(position)) = 2
    /\ Cardinality(Registered) = 3
    /\ Cardinality(ActiveIds) = 1

\* C2: whenever a pass runs at or below the bottom threshold (position >=
\* documentBottom - windowBottomOffset), an emitter with the greatest
\* trigger position of all is flagged active, in single and multiple mode,
\* also when position is smaller than that trigger position.
C2_BottomOverride ==
    (AfterPass /\ Marking /\ Registered # {}
       /\ position >= WindowBottomPosition - config.windowBottomOffset) =>
        \E w \in ActiveIds :
            \A o \in Registered : TriggerTop(o, position) <= TriggerTop(w, position)

\* A pass at the bottom threshold that activated an emitter whose trigger
\* position lies below the scroll offset's reach.
C2_Witness ==
    /\ lastPass = "update" /\ Marking
    /\ position >= WindowBottomPosition - config.windowBottomOffset
    /\ \E w \in ActiveIds :
          /\ position < TriggerTop(w, position)
          /\ \A o \in Registered \ {w} : TriggerTop(o, position) < TriggerTop(w, position)

\* C3: in single-active mode with rewind on, a pass at a greater scroll
\* offset than the pass before it, on the same registry and the same page
\* geometry, never leaves an active emitter of lower rank (trigger
\* position) than the one that was active.
C3_Monotone ==
    [][ ( /\ lastPass' # "none" /\ ~geoChanged
          /\ SingleMode /\ config.rewind
          /\ Registered' = Registered
          /\ position' > position )
        => \A o \in ActiveIds : \A n \in ActiveIds' :
               TriggerTop(o, position) <= TriggerTop(n, position)' ]_vars

\* A pass has moved the active emitter on from a reached one that is still
\* reached (two emitters reached, the lower one active, below the threshold).
C3_Witness ==
    /\ lastPass = "update" /\ SingleMode /\ config.rewind
    /\ position < BottomPosition
    /\ \E w \in ActiveIds : \E o \in ReachedIds(position) :
          TriggerTop(o, position) < TriggerTop(w, position)

\* C4: with rewind off, no classification pass of update() sets an active
\* flag back to false, whatever the scroll offsets, in single and multiple
\* mode: between refreshes the set of active emitters only grows.
C4_NoRewind ==
    [][ (~config.rewind /\ lastPass' \notin {"init", "refresh", "refreshed"})
        => /\ Len(emitters') = Len(emitters)
           /\ \A i \in 1 .. Len(emitters) :
                 /\ emitters'[i].id = emitters[i].id
                 /\ emitters[i].active => emitters'[i].active ]_vars

\* After an update() with rewind off, an emitter is still flagged active
\* although the scroll offset is back above its trigger position.
C4_Witness ==
    /\ lastPass = "update" /\ ~config.rewind /\ Marking
    /\ \E id \in ActiveIds : ~Reached(id, position)

C6_MultipleActive ==
    (AfterPass /\ MultipleMode /\ config.rewind) =>
        IF ReachedIds(position) = {}
        THEN ActiveIds = {}
        ELSE \E w \in LowestReached(position) :
                 ActiveIds = InSpan(position) \cup {w}

\* A pass in multiple mode found every reached span scrolled past and still
\* left an emitter active.
C6_Witness ==
    /\ lastPass = "update" /\ MultipleMode /\ config.rewind
    /\ ReachedIds(position) # {}
    /\ InSpan(position) = {}
    /\ ActiveIds # {}

\* C7: after every classification pass with the marker enabled, each
\* registered listener element carries the active attribute if and only if
\* the emitter it references is flagged active (so the listeners of one
\* emitter carry the same marker state).
C7_MarkerMatchesFlag ==
    (AfterPass /\ Marking) =>
        \A l \in 1 .. Len(listeners) :
            (listeners[l].element \in marked) <=> (listeners[l].emitterId \in ActiveIds)

\* After an update(), two listeners of one active emitter both carry the
\* attribute and a listener of another emitter has lost it.
C7_Witness ==
    /\ lastPass = "update" /\ Marking
    /\ \E l, m \in 1 .. Len(listeners) :
          /\ l # m
          /\ listeners[l].emitterId = listeners[m].emitterId
          /\ {listeners[l].element, listeners[m].element} \subseteq marked
    /\ \E l \in 1 .. Len(listeners) :
          /\ listeners[l].element \notin marked
          /\ ~HasReachedEmitter(listeners[l].emitterId, position)

\* C8: update() run right after a classification pass, with the scroll
\* offset, the page and the registry as they were, leaves the emitter
\* flags, the listener attributes, position and status as the pass left them.
C8_Idempotent ==
    [][ (lastPass' = "repeat")
        => /\ emitters' = emitters
           /\ marked' = marked
           /\ position' = position
           /\ status' = status ]_vars

\* update() has run a second time in a row, on flags and attributes that
\* were set, below the top of the page.
C8_Witness ==
    /\ lastPass = "repeat" /\ Marking
    /\ ActiveIds # {}
    /\ marked # {}
    /\ position > 0

\* C9: with attributeCurrent disabled, update() leaves every emitter flag
\* and every listener attribute as they were, and still sets position and
\* status from the current scroll offset and runs the 'update' callbacks.
C9_DisabledMarker ==
    [][ (config.attributeCurrent = <<>> /\ lastPass' \in {"update", "repeat"})
        => /\ emitters' = emitters
           /\ marked' = marked
           /\ position' = scrollY
           /\ status' = Status(scrollY, WindowBottomPosition)
           /\ fired' = Emit(events, "update") ]_vars

\* With the marker disabled, update() has run at a scroll offset where an
\* emitter is reached: no flag is set, position is new, a callback has run.
C9_Witness ==
    /\ config.attributeCurrent = <<>>
    /\ lastPass = "update"
    /\ position > 0
    /\ ReachedIds(position) # {}
    /\ ActiveIds = {}
    /\ marked = {}
    /\ fired # <<>>

\* C10: after any refresh(), every entry of the listener collection
\* references an emitter id that is in the emitter collection (update()
\* reads no missing emitter), and the listener collection has no entry
\* whose emitter id resolves to no element of the document.
C10_NoDangling ==
    AfterRefresh =>
        /\ ~thrown
        /\ \A l \in 1 .. Len(listeners) :
              /\ listeners[l].emitterId \in Registered
              /\ GetElementById(listeners[l].emitterId, marked, stripped) # NULL

\* refresh() has run on a document without listener elements and has kept
\* the entry of a listener whose emitter element is not in the document.
C10_Witness ==
    /\ AfterRefresh /\ docChanged
    /\ docListeners = {}
    /\ \E l \in 1 .. Len(listeners) :
          /\ listeners[l].emitterId \in Registered
          /\ listeners[l].emitterId \notin docIds

\* C11: refresh() on a document without any listener element leaves the
\* listener collection and the emitter collection empty, whatever they
\* held before, and raises no error.
C11_EmptyRegistry ==
    (AfterRefresh /\ docListeners = {}) =>
        /\ listeners = <<>>
        /\ emitters = <<>>
        /\ ~thrown

\* C12: refresh() called right after refresh(), on the same document, page
\* and scroll offset, leaves the listener collection, the emitters (one per
\* distinct resolved id) and the attribute config.attributeCurrent of every
\* element as the first call left them.
C12_RefreshIdempotent ==
    [][ (lastPass' = "refreshed")
        => /\ listeners' = listeners
           /\ emitters' = emitters
           /\ marked' = marked
           /\ stripped' = stripped
           /\ Cardinality(Registered') = Len(emitters') ]_vars

\* refresh() has run twice in a row and the second call has found fewer
\* listener elements than the first had registered: the pass of the first
\* has removed the attribute the scan selects by.
C12_Witness ==
    /\ lastPass = "refreshed"
    /\ ~thrown
    /\ stripped # {}
    /\ Len(listeners) < Cardinality({ el \in docListeners :
                                        EmitterOf(el, {}, {}) # NULL })

\* C13: after every classification pass on a page with documentBottom > 0
\* (and position >= 0), status lies in [0, 100], equals
\* position / documentBottom * 100 when position <= documentBottom, and is
\* exactly 100 when position exceeds documentBottom.
C13_StatusClamped ==
    (AfterPass /\ WindowBottomPosition > 0 /\ position >= 0) =>
        /\ status[2] > 0
        /\ 0 <= status[1] /\ status[1] <= 100 * status[2]
        /\ (position <= WindowBottomPosition) =>
              status[1] * WindowBottomPosition = position * 100 * status[2]
        /\ (position > WindowBottomPosition) => status = <<100, 1>>

\* A pass has run at a scroll offset beyond documentBottom (the window
\* scrolls past the end of the body) and left status at 100.
C13_Witness ==
    /\ lastPass = "update"
    /\ WindowBottomPosition > 0
    /\ position > WindowBottomPosition
    /\ status = <<100, 1>>

\* C14: when documentBottom (body height minus viewport height) is 0, a
\* classification pass leaves status a defined number in [0, 100], never
\* not-a-number.
C14_StatusDefined ==
    (AfterPass /\ WindowBottomPosition = 0) =>
        /\ status # NaN
        /\ status[2] > 0
        /\ 0 <= status[1] /\ status[1] <= 100 * status[2]

\* Rate limiter: indices of the calls and of the executions in the history
CallIdx == { i \in 1 .. Len(history) : history[i].kind = "call" }
ExecIdx == { i \in 1 .. Len(history) : history[i].kind = "exec" }
FirstCall == CHOOSE i \in CallIdx : \A j \in CallIdx : i <= j

\* A call that no execution has followed yet
Owed == \E c \in CallIdx : \A e \in ExecIdx : e < c

\* Throttle burst: at least two calls, all less than interval after the first
ThrottleBurst ==
    /\ ~debounce
    /\ Cardinality(CallIdx) >= 2
    /\ \A c \in CallIdx : history[c].time < history[FirstCall].time + interval

\* Debounce burst: every call less than interval after the call before it
DebounceBurst ==
    /\ debounce
    /\ Cardinality(CallIdx) >= 2
    /\ \A c, d \in CallIdx :
          (c < d /\ \A x \in CallIdx : ~(c < x /\ x < d)) =>
              history[d].time < history[c].time + interval

\* C15: in throttle mode any two executions of the callback are at least
\* interval ms apart, whether they ran inside a call or from a timeout.
C15_ThrottleSpacing ==
    ~debounce =>
        \A e, f \in ExecIdx :
            e < f => history[f].time - history[e].time >= interval

\* C16: in throttle mode every call of the wrapper is followed by an
\* execution of the callback (inside the call or later), given that time
\* passes and due timeouts run.
C16_TrailingEdge == (~debounce /\ Owed) ~> ~Owed

\* A suppressed call has been served by the timeout it set.
C16_Witness ==
    /\ ~debounce
    /\ ~Owed
    /\ \E c \in CallIdx : \E e \in ExecIdx :
          /\ e > c
          /\ ~history[e].sync
          /\ \A x \in ExecIdx : ~(c < x /\ x < e)

\* C17: in throttle mode, n >= 2 calls that all come less than interval
\* after the first one lead to exactly two executions once the timeout has
\* run: one inside the first call and one deferred; until then to one.
C17_ThrottleBurst ==
    ThrottleBurst =>
        IF timers = {}
        THEN /\ Cardinality(ExecIdx) = 2
             /\ \E e, f \in ExecIdx :
                   /\ e = FirstCall + 1 /\ history[e].sync
                   /\ f > e /\ ~history[f].sync
                   /\ \A c \in CallIdx : c < f
        ELSE ExecIdx = {FirstCall + 1}

\* A burst of at least three calls is over and its timeout has run.
C17_Witness ==
    /\ ThrottleBurst
    /\ Cardinality(CallIdx) >= 3
    /\ timers = {}
    /\ Cardinality(ExecIdx) = 2

\* C18: in debounce mode the callback never runs inside a call; when it
\* runs, every call so far lies at least interval ms back; and a burst of
\* calls followed by silence leads to exactly one execution.
C18_Debounce ==
    debounce =>
        /\ \A e \in ExecIdx :
              /\ ~history[e].sync
              /\ \A c \in CallIdx :
                    c < e => history[c].time + interval <= history[e].time
        /\ DebounceBurst =>
              Cardinality(ExecIdx) = (IF timers = {} THEN 1 ELSE 0)

\* A debounced burst of at least three calls, spread over more than one
\* interval, is over and the callback has run once.
C18_Witness ==
    /\ DebounceBurst
    /\ Cardinality(CallIdx) >= 3
    /\ \E c, d \in CallIdx : history[d].time >= history[c].time + interval
    /\ timers = {}
    /\ Cardinality(ExecIdx) = 1

\* C19: scrollTo() without an argument asks for destination 0 (and an
\* immediate jump leaves the window at offset 0) and leaves the URL it
\* found without its fragment: the same URL up to the '#', with an empty
\* location.hash; whatever the instance did before.
C19_ScrollToTop ==
    \A i \in 1 .. Len(scrollCall) :
        (scrollCall[i].id = <<>>) =>
            /\ scrollCall[i].top = 0
            /\ (scrollCall[i].last /\ scrollCall[i].behavior = "auto") => scrollY = 0
            /\ LocationHash(url) = <<>>
            /\ BeforeHash(url) = BeforeHash(scrollCall[i].href)

\* scrollTo() has been called on a page scrolled down, at a URL with a
\* fragment: the window is at the top, the fragment is gone.
C19_Witness ==
    /\ scrollCall # <<>>
    /\ scrollCall[1].last
    /\ scrollCall[1].id = <<>>
    /\ LocationHash(scrollCall[1].href) # <<>>
    /\ url = <<"u">>
    /\ position > 0
    /\ scrollY = 0

\* C20: scrollTo(id) with an id that no element of the document has raises
\* no error, asks for destination 0, and leaves the listener collection,
\* the emitters with their flags and the listener attributes as they were.
C20_MissingTarget ==
    [][ ( /\ scrollCall' # <<>>
          /\ scrollCall'[1].last
          /\ scrollCall'[1].id # <<>>
          /\ scrollCall'[1].id \notin docIds )
        => /\ scrollCall'[1].top = 0
           /\ ~thrown'
           /\ UNCHANGED <<listeners, emitters, marked, stripped>> ]_vars

\* scrollTo has been called with an id that resolves to no element, on a
\* page scrolled down with an active emitter: the window has jumped to the
\* top, the attributes are still there.
C20_Witness ==
    /\ scrollCall # <<>>
    /\ scrollCall[1].last
    /\ scrollCall[1].id # <<>>
    /\ scrollCall[1].id \notin docIds
    /\ scrollCall[1].behavior = "auto"
    /\ position > 0
    /\ scrollY = 0
    /\ marked # {}
    /\ ActiveIds # {}

\* C22: scrollTo asks for an animated scroll if and only if smooth
\* scrolling is forced (smoothScroll = true) or native (smoothScroll =
\* 'auto' in a browser that supports it) and the user has not asked for
\* reduced motion; otherwise it jumps at once; either way to the same
\* destination (0, or element top + position - offsetTop + 1).
C22_SmoothIff ==
    [][ (scrollCall' # <<>> /\ scrollCall'[1].last)
        => /\ (scrollCall'[1].behavior = "smooth") <=>
                 ( /\ \/ config.smoothScroll = "true"
                      \/ config.smoothScroll = "auto" /\ scrollBehavior
                   /\ ~reducedMotion )
           /\ scrollCall'[1].behavior \in {"smooth", "auto"}
           /\ scrollCall'[1].top =
                 IF scrollCall'[1].id \in docIds
                 THEN Layouts[layout].top[scrollCall'[1].id] - scrollY + position
                        - config.offsetTop + 1
                 ELSE 0
           /\ IF scrollCall'[1].behavior = "smooth"
              THEN scrollCall'[1].pending /\ scrollY' = scrollY
              ELSE ~scrollCall'[1].pending
                   /\ scrollY' = Clamp(scrollCall'[1].top, layout) ]_vars

\* scrollTo(id) has jumped at once to an element although smooth scrolling
\* is forced by the config: the user has asked for reduced motion.
C22_Witness ==
    /\ scrollCall # <<>>
    /\ scrollCall[1].last
    /\ config.smoothScroll = "true"
    /\ reducedMotion
    /\ scrollCall[1].behavior = "auto"
    /\ scrollCall[1].id \in docIds
    /\ scrollCall[1].top > 0
    /\ scrollY = scrollCall[1].top

(***************************************************************************)
(* C29: the boundary of the reached test in single mode                    *)
(***************************************************************************)
\* With rewind on, the active emitter of single mode is the reached one with
\* the greatest trigger position, so an emitter was treated as reached by
\* the pass exactly when an active emitter triggers at or below it.
TreatedAsReached(id) ==
    \E w \in ActiveIds : TriggerTop(w, position) >= TriggerTop(id, position)

\* C29: in single mode an emitter is treated as reached iff the
\* position is greater than its trigger position or at least the bottom
\* position, so that at a position equal to its trigger position (and below
\* the bottom position) it is not yet reached.
C29_StrictBoundary ==
    (AfterPass /\ SingleMode /\ config.rewind)
        => \A id \in Registered :
               TreatedAsReached(id) <=>
                   \/ position > TriggerTop(id, position)
                   \/ position >= BottomPosition

\* A pass has made active an emitter whose trigger position, below the bottom
\* position, is exactly the scroll position, while another emitter lies
\* further down and is not reached.
C29_Witness ==
    /\ lastPass = "update"
    /\ SingleMode
    /\ config.rewind
    /\ position > 0
    /\ position < BottomPosition
    /\ \E id \in ActiveIds : position = TriggerTop(id, position)
    /\ \E id \in Registered : ~TreatedAsReached(id)

(***************************************************************************)
(* C30: what an 'update' callback finds on the listener elements           *)
(***************************************************************************)
\* C30 as stated: the 'update' notification of a pass fires after the flags
\* are computed and the listener elements mutated, so an 'update' callback
\* finds the markers that belong to the position and status it reads, the
\* ones the pass leaves.
C30_NotifiesAfter ==
    (AfterPass /\ fired # <<>>)
        => /\ seen # <<>>
           /\ seen[1].position = position
           /\ seen[1].status = status
           /\ seen[1].marked = marked

\* C30 as the code has it: the 'update' notification of a pass fires after
\* position and status are set and before the flags are computed and the
\* listener elements mutated, so an 'update' callback reads the position and
\* status of this pass and finds the markers as they were before the pass.
C30_NotifiesBefore ==
    [][ (lastPass' # "none" /\ fired' # <<>>)
        => seen' = << [position |-> position', status |-> status',
                       marked |-> marked] >> ]_vars

\* An update() ran a callback that found markers other than the ones the
\* pass left.
C30_Witness ==
    /\ lastPass = "update"
    /\ fired # <<>>
    /\ seen # <<>>
    /\ seen[1].position = position
    /\ seen[1].marked # marked

(***************************************************************************)
(* The constructor on user configs of every shape (lines 41-60, 376)       *)
(***************************************************************************)
\* The arguments explored: none, {}, recognized options alone and together,
\* options the constructor does not know (callback, foo), the deprecated
\* options offset and offsetFrom, with values that are truthy and falsy
ConfigInputs ==
    { UNDEFINED,
      EmptyConfig,
      [offsetTop |-> 1],
      [multiple |-> TRUE, offsetBottom |-> 1],
      [rewind |-> FALSE, windowBottomOffset |-> 0],
      [attributeCurrent |-> <<>>],
      [attributeCurrent |-> NULL, multiple |-> TRUE],
      [attribute |-> <<"data-x">>],
      [smoothScroll |-> "false", throttleDelay |-> 2],
      [offsetTop |-> 0, callback |-> 1],
      [offset |-> 2],
      [offset |-> -1],
      [offset |-> 0, windowBottomOffset |-> 0],
      [offset |-> 0, offsetTop |-> 1],
      [offset |-> 2, offsetTop |-> 1, foo |-> TRUE],
      [offsetFrom |-> <<"header">>],
      [offsetFrom |-> <<"header">>, offset |-> 1, offsetTop |-> 0],
      [offsetFrom |-> <<>>, offset |-> 2],
      [attribute |-> <<"href">>],
      [attribute |-> <<"id">>],
      [attribute |-> <<>>] }

\* new ScrollReaction(userConfig) returned an instance: neither lines 50-55
\* nor this.init() (line 376) threw
Constructed == instance

\* new ScrollReaction(userConfig) on a page at its top that holds the element
\* offsetFrom selects, 2 pixels high
ConfigInit ==
    /\ userConfig \in ConfigInputs
    /\ config = IF ConfigThrows(userConfig) THEN MergeConfig(userConfig)
                ELSE ResolveConfig(userConfig)
    /\ layout = 1
    /\ scrollY = 0
    /\ docListeners = 1 .. Len(ListenerElements)
    /\ docIds = ElementIds
    /\ url = <<"u">>
    /\ scrollCall = <<>>
    /\ activeElement = NULL
    /\ tabindex = {}
    /\ scrollBehavior = TRUE
    /\ scrollOptions = TRUE
    /\ reducedMotion = FALSE
    /\ fromElement = <<2>>
    /\ IF ConfigThrows(userConfig) THEN ConstructFailed ELSE Construct
    /\ ScrollLimiter
    /\ Single

\* The operations of an instance that exists
ConfigNext ==
    \/ Constructed /\ Update
    \/ Constructed /\ Refresh
    \/ Constructed /\ \E name \in {"update", "click"} : On(name)
    \/ Constructed /\ \E id \in { <<"b">>, <<>> } : ScrollTo(id)
    \/ Constructed /\ Animate

ConfigSpec == ConfigInit /\ [][ConfigNext]_vars

(***************************************************************************)
(* C25: resolution of the configuration                                    *)
(***************************************************************************)
\* The overlay of the user's value on the default for option c
Overlay(c) == IF Has(userConfig, c) THEN userConfig[c] ELSE DefaultConfig[c]

\* C25 as stated: every recognized option has the user's value when the user
\* config holds it and the default otherwise, no other key appears in the
\* resolved config, and no operation changes the resolved config.
C25_Overlay ==
    Constructed
        => /\ DOMAIN config = DOMAIN DefaultConfig
           /\ \A c \in DOMAIN DefaultConfig : config[c] = Overlay(c)

\* C25 as the code has it: every recognized option other than offsetTop has
\* the user's value when the user config holds it and the default otherwise;
\* offsetTop is the function reading the offsetFrom element when the
\* deprecated option offsetFrom is given and truthy, else the value of the
\* deprecated option offset when that is given and truthy, else the overlay;
\* no other key appears in the resolved config, and no operation changes it.
C25_Resolved ==
    /\ [](Constructed
            => /\ DOMAIN config = DOMAIN DefaultConfig
               /\ \A c \in DOMAIN DefaultConfig \ {"offsetTop"} :
                      config[c] = Overlay(c)
               /\ config.offsetTop =
                      IF HasOffsetFrom(userConfig) THEN OffsetFromFunction
                      ELSE IF HasOffset(userConfig) THEN userConfig.offset
                      ELSE Overlay("offsetTop"))
    /\ [][config' = config]_vars

\* An instance built from a config with an unknown key, a recognized key and
\* the deprecated offset has run a scrollTo and a pass: offsetTop has the
\* value of offset, not the user's offsetTop.
C25_Witness ==
    /\ Constructed
    /\ Has(userConfig, "foo")
    /\ Has(userConfig, "offsetTop")
    /\ HasOffset(userConfig)
    /\ config.offsetTop = userConfig.offset
    /\ config.offsetTop # userConfig.offsetTop
    /\ config.rewind = DefaultConfig.rewind
    /\ scrollCall # <<>>
    /\ lastPass = "update"

(***************************************************************************)
(* C26: the constructor without argument                                   *)
(***************************************************************************)
\* C26: new ScrollReaction() raises no error and yields an instance with
\* every option at its default, the first scan and pass performed.
C26_NoArgument ==
    ConfigThrows(userConfig)
        => /\ ~thrown
           /\ config = DefaultConfig
           /\ AfterRefresh

(***************************************************************************)
(* C21: the pass at the destination of scrollTo                            *)
(***************************************************************************)
\* The trigger positions of the registered emitters are pairwise distinct
DistinctTriggers ==
    \A i, j \in Registered :
        i # j => TriggerTop(i, position) # TriggerTop(j, position)

\* C21: after scrollTo(id) for the element of a registered emitter, with the
\* destination (element top - offsetTop + 1) within the scrollable range and
\* below the bottom position, a pass run in single mode (rewind on) once the
\* scroll offset equals the destination makes the target's own emitter the
\* active one, whenever the trigger positions are pairwise distinct.
C21_TargetActive ==
    ( /\ AfterPass
      /\ SingleMode
      /\ config.rewind
      /\ scrollCall # <<>>
      /\ scrollCall[1].id \in Registered \cap docIds
      /\ scrollCall[1].top = DocTop(scrollCall[1].id, position) - OffsetTop + 1
      /\ scrollCall[1].top \in ScrollRange(layout)
      /\ scrollCall[1].top < BottomPosition
      /\ position = scrollCall[1].top
      /\ DistinctTriggers )
        => ActiveIds = { scrollCall[1].id }

(***************************************************************************)
(* Two instances on one page (README.md:316-330)                           *)
(***************************************************************************)
\* The state an instance keeps for itself: the variables and properties the
\* constructor function declares (lines 15-80) and the click handlers it has
\* attached.  The marker attribute is not part of it: it is on the listener
\* elements of the document, which every instance reads and writes.
Me ==
    [ userConfig |-> userConfig, config |-> config, listeners |-> listeners,
      emitters |-> emitters, events |-> events, position |-> position,
      status |-> status, clickBound |-> clickBound,
      fired |-> fired, seen |-> seen, thrown |-> thrown, lastPass |-> lastPass ]

\* A bug: var events is declared outside the constructor function
ModuleLevelEvents == { "events" }

\* The parts of that state declared at module level, shared by all
\* instances: none, lines 1-10 import defaultConfig and defer and the
\* constructor only reads them
ModuleLevel == {}

\* Part f of the state of the instance that operates next
Resumed(f) == IF f \in ModuleLevel THEN Me[f] ELSE other[f]

\* The configs of the two instances
PairConfigs ==
    [ multiple           : BOOLEAN,
      rewind             : BOOLEAN,
      offsetTop          : { 1 },
      offsetBottom       : { 1, UserFunction(2) },
      windowBottomOffset : { 0 } ]

\* The configs of the second instance, given the config u of the first: the
\* one that differs from u in offsetBottom only, and the one of the opposite
\* mode with the opposite rewind
OtherConfigs(u) ==
    { v \in PairConfigs :
        \/ v.multiple = u.multiple /\ v.rewind = u.rewind
              /\ v.offsetBottom # u.offsetBottom
        \/ v.multiple # u.multiple /\ v.rewind # u.rewind
              /\ v.offsetBottom = u.offsetBottom }

\* The first instance on a page loaded at its top; the second is yet to be
\* constructed
PairInit ==
    /\ userConfig \in PairConfigs
    /\ config = ResolveConfig(userConfig)
    /\ layout = 1
    /\ scrollY = 0
    /\ docListeners = 1 .. Len(ListenerElements)
    /\ docIds = ElementIds
    /\ Construct
    /\ ScrollLimiter
    /\ PlainBrowser
    /\ other = NoInstance
    /\ turn = 0
    /\ pending = "new"

\* new ScrollReaction(userConfig) for the second instance, up to line 375:
\* the config is resolved (lines 41-60), the collections are empty, position
\* and status are 0 (lines 73, 80); no element is touched; this.init() is
\* yet to run
NewOther ==
    /\ pending = "new"
    /\ pending' = "init"
    /\ turn' = 0
    /\ other' = Me
    /\ userConfig' \in OtherConfigs(userConfig)
    /\ config' = ResolveConfig(userConfig')
    /\ listeners' = <<>>
    /\ emitters' = <<>>
    /\ events' = <<>>
    /\ position' = 0
    /\ status' = <<0, 1>>
    /\ clickBound' = NoHandlers
    /\ fired' = <<>>
    /\ seen' = <<>>
    /\ thrown' = FALSE
    /\ lastPass' = "none"
    /\ UNCHANGED <<scrollY, layout, docListeners, docIds, marked, stripped, instance,
                   geoChanged, docChanged, deferVars, navVars>>

\* this.init() of the second instance (line 376) runs refresh() on the page
\* as the first instance found it
InitOther ==
    /\ pending = "init"
    /\ pending' = "none"
    /\ turn' = 0
    /\ other' = other
    /\ UNCHANGED deferVars
    /\ NavIdle

\* The instance that has operated rests and the other one operates next, on
\* the document as it is
Switch ==
    /\ turn \in {1, 3}
    /\ turn' = (turn + 1) % 4
    /\ pending' = IF turn = 3 THEN "none" ELSE pending
    /\ other' = Me
    /\ userConfig' = Resumed("userConfig")
    /\ config' = Resumed("config")
    /\ listeners' = Resumed("listeners")
    /\ emitters' = Resumed("emitters")
    /\ events' = Resumed("events")
    /\ position' = Resumed("position")
    /\ status' = Resumed("status")
    /\ clickBound' = Resumed("clickBound")
    /\ fired' = Resumed("fired")
    /\ seen' = Resumed("seen")
    /\ thrown' = Resumed("thrown")
    /\ lastPass' = Resumed("lastPass")
    /\ UNCHANGED <<scrollY, layout, docListeners, docIds, marked, stripped, instance,
                   geoChanged, docChanged, deferVars, navVars>>

\* The operation op reaches the two instances one after the other: the first
\* receives it while none is pending, the second receives the pending one
Received(op) ==
    /\ \/ turn = 0 /\ pending = "none" /\ turn' = 1 /\ pending' = op
       \/ turn = 2 /\ pending = op /\ turn' = 3 /\ pending' = op
    /\ other' = other
    /\ UNCHANGED deferVars

\* An operation that does not scroll
Receive(op) == Received(op) /\ NavIdle

\* The click on the listener element el, whose event listener list holds the
\* handler of either instance
ClickOn(el) == IF el = 1 THEN "click 1" ELSE "click 5"

\* The page changes while no operation is pending
Quiet ==
    /\ turn = 0
    /\ pending = "none"
    /\ UNCHANGED pairVars
    /\ UNCHANGED deferVars

PairNext ==
    \/ NewOther
    \/ InitOther /\ DoRefresh
    \/ Switch
    \/ Receive("update") /\ DoUpdate
    \/ Receive("refresh") /\ DoRefresh
    \/ Receive("on update") /\ DoOn("update")
    \/ \E p \in ScrollRange(layout) : Quiet /\ NavCancel /\ DoScroll(p)
    \/ \E l \in 1 .. Len(Layouts) : Quiet /\ NavIdle /\ DoResize(l)

PairSpec == PairInit /\ [][PairNext]_vars

\* The first of two instances, in single mode with rewind on, for a user
\* who has asked for reduced motion (every scrollTo jumps); the second will
\* differ from it in offsetBottom, or in mode and rewind
SharedInit ==
    /\ userConfig \in { u \in PairConfigs :
                            u.offsetBottom = 1 /\ u.rewind /\ ~u.multiple }
    /\ config = ResolveConfig(userConfig)
    /\ layout = 1
    /\ scrollY = 0
    /\ docListeners = 1 .. Len(ListenerElements)
    /\ docIds = ElementIds
    /\ Construct
    /\ ScrollLimiter
    /\ url = <<"u">>
    /\ scrollCall = <<>>
    /\ activeElement = NULL
    /\ tabindex = {}
    /\ scrollBehavior = TRUE
    /\ scrollOptions = TRUE
    /\ reducedMotion = TRUE
    /\ fromElement = <<>>
    /\ other = NoInstance
    /\ turn = 0
    /\ pending = "new"

\* Every operation and event of two instances on one page: the methods
\* called on both, a click on a link both have bound, scrollTo called on
\* one of them, the user scrolling, the window resized
SharedNext ==
    \/ NewOther
    \/ InitOther /\ DoRefresh
    \/ Switch
    \/ Receive("update") /\ DoUpdate
    \/ Receive("refresh") /\ DoRefresh
    \/ Receive("on update") /\ DoOn("update")
    \/ \E el \in {1, 5} : Received(ClickOn(el)) /\ DoClick(el)
    \/ Quiet /\ DoScrollTo(<<"b">>)
    \/ \E p \in {0, 2} : Quiet /\ NavCancel /\ DoScroll(p)
    \/ \E l \in {1, 2} : Quiet /\ NavIdle /\ DoResize(l)

SharedSpec == SharedInit /\ [][SharedNext]_vars

(***************************************************************************)
(* C28: offsetBottom in single mode                                        *)
(***************************************************************************)
\* Both instances have received every operation
InStep == turn = 0 /\ pending = "none"

\* The two instances are in single mode and differ in offsetBottom only
Twins ==
    /\ ~config.multiple
    /\ other.config.offsetBottom # config.offsetBottom
    /\ \A c \in DOMAIN config \ {"offsetBottom"} : other.config[c] = config[c]

\* C28: with multiple = false, two instances that differ only in
\* offsetBottom, a number or the result of a function, have identical emitter
\* flags and listener attributes after every pass, at every scroll position
\* and page geometry: the pass of the second of them (of its constructor, or
\* of the operation the first has run before it) ends with the flags the
\* first has and leaves the attribute on the elements where the pass of the
\* first left it.
C28_OffsetBottomIgnored ==
    [][ ((pending = "init" \/ turn = 2) /\ Twins /\ lastPass' # "none")
            => /\ emitters' = other.emitters
               /\ marked' = marked ]_vars

\* Twins, one with a number and one with a function as offsetBottom, after an
\* update() away from the top of the page that left an emitter active.
C28_Witness ==
    /\ InStep
    /\ lastPass = "update"
    /\ other.lastPass = "update"
    /\ Twins
    /\ IsFunction(config.offsetBottom) # IsFunction(other.config.offsetBottom)
    /\ position > 0
    /\ ActiveIds # {}
    /\ marked # {}

(***************************************************************************)
(* C27: two instances do not interfere                                     *)
(***************************************************************************)
\* What C27 lists of an instance: its resolved config, its listener and
\* emitter collections with the flags, position, status and its registered
\* callbacks
Listed(inst) ==
    [ config |-> inst.config, listeners |-> inst.listeners,
      emitters |-> inst.emitters, position |-> inst.position,
      status |-> inst.status, events |-> inst.events ]

ClickConfigs ==
    { [offsetFrom |-> <<"header">>, smoothScroll |-> "true",
       windowBottomOffset |-> 0],
      [offsetFrom |-> <<"header">>, offset |-> 1, smoothScroll |-> "auto",
       windowBottomOffset |-> 0],
      [offsetTop |-> 1, smoothScroll |-> "true", windowBottomOffset |-> 0] }

\* An instance on a page whose offsetFrom element is 2 pixels high, for a
\* user who has or has not asked for reduced motion
ClickInit ==
    /\ userConfig \in ClickConfigs
    /\ config = ResolveConfig(userConfig)
    /\ layout = 1
    /\ scrollY \in {0, 1}
    /\ docListeners = 1 .. Len(ListenerElements)
    /\ docIds = ElementIds
    /\ url = <<"u">>
    /\ scrollCall = <<>>
    /\ activeElement = NULL
    /\ tabindex = {}
    /\ scrollBehavior = TRUE
    /\ scrollOptions = TRUE
    /\ reducedMotion \in BOOLEAN
    /\ fromElement = <<2>>
    /\ Construct
    /\ ScrollLimiter
    /\ Single

\* on() while fewer than MaxCallbacks callbacks are registered
OnMore(name) == Len(events) < MaxCallbacks /\ Register(name) /\ Idle

ClickNext ==
    \/ \E el \in 1 .. Len(ListenerElements) : Click(el)
    \/ OnMore("click")
    \/ EmitCall("click")
    \/ Update
    \/ Animate

ClickSpec == ClickInit /\ [][ClickNext]_vars

(***************************************************************************)
(* C24: 'click' callbacks run before scrollTo                              *)
(***************************************************************************)
\* C24: when a listener link bound for smooth scrolling is clicked, every
\* registered 'click' callback is invoked, and all of them have completed
\* when scrollTo computes the destination and scrolls: the callbacks found
\* the instance as it was before the click, and the destination is computed
\* with the top offset as the callbacks left it.
C24_CallbacksFirst ==
    [][ (scrollCall' # <<>> /\ scrollCall'[1].last /\ scrollCall'[1].via = "click")
        => /\ fired' = Emit(events, "click")
           /\ fired' # <<>> =>
                 seen' = << [position |-> position, status |-> status,
                             marked |-> marked] >>
           /\ scrollCall'[1].top =
                 IF scrollCall'[1].id \in docIds
                 THEN Layouts[layout].top[scrollCall'[1].id] - scrollY + position
                        - OffsetTop' + 1
                 ELSE 0 ]_vars

\* A click ran two 'click' callbacks, which collapsed the element the top
\* offset is read from, and the scroll request was made for the destination
\* computed with the collapsed height.
C24_Witness ==
    /\ scrollCall # <<>>
    /\ scrollCall[1].last
    /\ scrollCall[1].via = "click"
    /\ Len(fired) = 2
    /\ config.offsetTop = OffsetFromFunction
    /\ ~HasOffset(userConfig)
    /\ fromElement = <<1>>
    /\ scrollCall[1].id \in docIds
    /\ position = 0
    /\ scrollCall[1].top = Layouts[layout].top[scrollCall[1].id]
    /\ scrollY = Clamp(scrollCall[1].top, layout)

(***************************************************************************)
(* The instance with a rate-limited window handler (lines 94-100)          *)
(***************************************************************************)
\* The 200 ms of the resize and orientationchange handlers (lines 94-95), on
\* the clock of the model
ResizeDelay == 3

\* Configs with the marker enabled and disabled
LoopConfigs ==
    { [throttleDelay |-> 2, offsetTop |-> 1, windowBottomOffset |-> 0],
      [throttleDelay |-> 2, offsetTop |-> 1, windowBottomOffset |-> 0,
       attributeCurrent |-> <<>>] }

\* An instance and one of the handlers init() attaches: the throttled one of
\* the scroll event (line 100) or the debounced one of the resize event
\* (line 94)
LoopInit ==
    /\ userConfig \in LoopConfigs
    /\ config = ResolveConfig(userConfig)
    /\ layout = 1
    /\ scrollY = 0
    /\ docListeners = 1 .. Len(ListenerElements)
    /\ docIds = ElementIds
    /\ Construct
    /\ debounce \in BOOLEAN
    /\ interval = IF debounce THEN ResizeDelay ELSE config.throttleDelay
    /\ lastTime = <<>>
    /\ deferTimer = 0
    /\ queued = {}
    /\ debounced = NoDebounced
    /\ again = <<>>
    /\ timers = {}
    /\ now = 1
    /\ history = <<>>
    /\ PlainBrowser
    /\ Single

\* An operation that runs no pass and calls no callback
NoPass ==
    /\ fired' = <<>>
    /\ seen' = <<>>
    /\ thrown' = FALSE
    /\ lastPass' = "none"
    /\ UNCHANGED <<config, userConfig, instance, listeners, emitters, events, position,
                   status, scrollY, layout, docListeners, docIds, marked, stripped,
                   clickBound, geoChanged, docChanged>>

\* The window event is dispatched: the function defer returned is called
\* (lines 703-724) and either runs update() at once or sets the timeout
HandleCore ==
    /\ IF ShouldDefer(debounce, lastTime, now, interval)
       THEN /\ timers' = SetTimeout(ClearTimeout(timers, deferTimer),
                                    deferTimer + 1, now, interval)
            /\ deferTimer' = deferTimer + 1
            /\ UNCHANGED lastTime
            /\ NoPass
       ELSE /\ lastTime' = <<now>>
            /\ UNCHANGED <<timers, deferTimer>>
            /\ DoUpdate
    /\ UNCHANGED <<interval, debounce, now, pairVars>>
    /\ NavIdle

\* The same with the call, and the execution when there is one, recorded
DoHandle ==
    /\ NumCalls < MaxHandled
    /\ now + interval <= MaxTime
    /\ HandleCore
    /\ history' = IF ShouldDefer(debounce, lastTime, now, interval)
                  THEN Append(history, CallEntry(now))
                  ELSE history \o << CallEntry(now), ExecEntry(now, TRUE) >>

Handle == DoHandle /\ UNCHANGED <<queued, debounced, again>>

\* A pending timeout that is due runs update() (lines 712-717)
TimeoutCore(tm) ==
    /\ tm \in timers
    /\ now >= tm.due
    /\ timers' = timers \ {tm}
    /\ lastTime' = <<tm.now>>
    /\ DoUpdate
    /\ UNCHANGED <<interval, debounce, deferTimer, now, pairVars>>
    /\ NavIdle

\* The same with the execution recorded
DoTimeout(tm) ==
    /\ TimeoutCore(tm)
    /\ history' = Append(history, ExecEntry(now, FALSE))

Timeout(tm) == DoTimeout(tm) /\ UNCHANGED <<queued, debounced, again>>

LoopNext ==
    \/ Handle
    \/ \E tm \in timers : Timeout(tm)
    \/ Tick
    \/ Scroll(2)
    \/ Update
    \/ Refresh
    \/ \E name \in {"update", "click"} : OnMore(name)
    \/ EmitCall("update")

LoopSpec == LoopInit /\ [][LoopNext]_vars

(***************************************************************************)
(* C23: when 'update' callbacks run                                        *)
(***************************************************************************)
\* C23: a callback registered with on('update', cb) is invoked exactly once
\* during the registration, and then exactly once by every pass, whether
\* update() is called directly, by refresh() or by a rate-limited window
\* handler, also with attributeCurrent disabled; the callbacks of a pass run
\* in registration order, and no other operation of the instance invokes
\* them; only a call of emit() by the page's script does, which calls the
\* callbacks of the name it is given and leaves the instance, the page and
\* the timeouts as they are. (A step in which only time passes is no
\* operation.)
C23_UpdateCallbacks ==
    [][ now' = now =>
        /\ events' # events
            => /\ Len(events') = Len(events) + 1
               /\ fired' = IF events'[Len(events')].name = "update"
                           THEN << events'[Len(events')].callback >>
                           ELSE <<>>
        /\ (events' = events /\ lastPass' # "none")
            => /\ fired' = Emit(events, "update")
               /\ \A i, j \in 1 .. Len(fired') :
                     i < j => fired'[i] < fired'[j]
               /\ \A e \in 1 .. Len(events) :
                     events[e].name = "update" =>
                        Cardinality({ i \in 1 .. Len(fired') :
                                        fired'[i] = events[e].callback }) = 1
        /\ (events' = events /\ lastPass' = "none" /\ fired' # <<>>)
            => /\ fired' = Emit(events, "update")
               /\ UNCHANGED <<listeners, emitters, marked, stripped, position, status,
                              scrollY, lastTime, deferTimer, timers>>
      ]_vars

\* A timeout of the rate-limited handler has run the pass, with the marker
\* disabled, and the pass called the two registered 'update' callbacks in
\* registration order.
C23_Witness ==
    /\ history # <<>>
    /\ history[Len(history)].kind = "exec"
    /\ ~history[Len(history)].sync
    /\ lastPass # "none"
    /\ ~MarkerEnabled
    /\ Len(events) = 2
    /\ fired = <<1, 2>>
    /\ position > 0

(***************************************************************************)
(* C35: one pending timeout per rate limiter                               *)
(***************************************************************************)
\* The executions run by a timeout so far
AsyncExecs ==
    Cardinality({ i \in 1 .. Len(history) :
                    history[i].kind = "exec" /\ ~history[i].sync })

\* C35: a rate limiter has at most one timeout pending at every moment (a
\* deferred call clears the pending timeout before it sets its own), and a
\* timeout leads to at most one execution: the executions run by timeouts so
\* far plus the pending timeout never exceed the timeouts set, and a timeout
\* that runs is no longer pending.
C35_OnePending ==
    /\ Cardinality(timers) <= 1
    /\ AsyncExecs + Cardinality(timers) <= deferTimer
    /\ \A tm \in timers : tm.id = deferTimer

\* A deferred call has replaced a pending timeout by its own, after an
\* earlier timeout had run.
C35_Witness ==
    /\ AsyncExecs >= 1
    /\ deferTimer >= 3
    /\ Cardinality(timers) = 1

(***************************************************************************)
(* C39: the URL after scrollTo                                             *)
(***************************************************************************)
\* C39 (the part about the fragment): after a scrollTo call the fragment of
\* the URL is '#id' exactly when the call scrolled to the element with that
\* id, and the URL has no fragment when the call scrolled to the top, be it
\* for want of an id or because the id resolves to no element.
C39_FragmentAgrees ==
    \A i \in 1 .. Len(scrollCall) :
        scrollCall[i].last =>
            IF Truthy(scrollCall[i].id) /\ scrollCall[i].id \in docIds
            THEN LocationHash(url) = <<"#">> \o scrollCall[i].id
            ELSE /\ scrollCall[i].top = 0
                 /\ LocationHash(url) = <<>>

(***************************************************************************)
(* scrollTo next to the throttled handler of the scroll event              *)
(***************************************************************************)
\* The configs explored: immediate and native animated scrolling
RaceConfigs ==
    { [throttleDelay |-> 2, offsetTop |-> 1, windowBottomOffset |-> 0,
       smoothScroll |-> "false"],
      [throttleDelay |-> 2, offsetTop |-> 1, windowBottomOffset |-> 0,
       smoothScroll |-> "auto"] }

\* An instance with the throttled handler init() attaches to the scroll
\* event (lines 97-100), on a page loaded at the top
RaceInit ==
    /\ userConfig \in RaceConfigs
    /\ config = ResolveConfig(userConfig)
    /\ layout = 1
    /\ scrollY = 0
    /\ docListeners = 1 .. Len(ListenerElements)
    /\ docIds = ElementIds
    /\ Construct
    /\ ScrollLimiter
    /\ PlainBrowser
    /\ Single

\* The user scrolls, the scroll event is dispatched to the throttled
\* handler, its timeout runs, time passes, the page's script calls scrollTo
RaceNext ==
    \/ \E p \in {0, 2} : Scroll(p)
    \/ Handle
    \/ \E tm \in timers : Timeout(tm)
    \/ Tick
    \/ \E id \in { <<"b">>, <<"c">> } : ScrollTo(id)
    \/ Animate

RaceSpec == RaceInit /\ [][RaceNext]_vars

(***************************************************************************)
(* C37: the destination of scrollTo                                        *)
(***************************************************************************)
\* C37: scrollTo(id) for an existing element asks for the element's top in
\* the document minus offsetTop plus 1, whatever the scroll events, the
\* throttled passes and the scrollTo calls before it, also when the window
\* has been scrolled since the last pass and a throttled pass is pending.
C37_Destination ==
    \A i \in 1 .. Len(scrollCall) :
        (scrollCall[i].last /\ scrollCall[i].id \in docIds) =>
            scrollCall[i].top =
                Layouts[layout].top[scrollCall[i].id] - config.offsetTop + 1

\* scrollTo has run while a throttled pass was pending and position was not
\* the scroll offset it was called at
C37_Witness ==
    /\ timers # {}
    /\ scrollCall # <<>>
    /\ scrollCall[1].last
    /\ scrollCall[1].id = <<"b">>
    /\ scrollCall[1].behavior = "smooth"
    /\ scrollY = 0
    /\ position = 2
    /\ scrollCall[1].top = 4

(***************************************************************************)
(* C38: markers of listeners dropped by refresh                            *)
(***************************************************************************)
\* C38: after refresh() and its pass, every listener element of the document
\* that carries the active attribute is in the listener collection and its
\* emitter is flagged active; an element that refresh() has dropped from the
\* collection, because its emitter is no longer found, carries no marker.
\* (Stated for rewind on, where a pass removes the marker of every listener
\* whose emitter is not active.)
C38_NoStaleMarker ==
    (AfterRefresh /\ Marking /\ config.rewind /\ ~thrown) =>
        \A el \in marked \cap docListeners :
            \E l \in 1 .. Len(listeners) :
                /\ listeners[l].element = el
                /\ listeners[l].emitterId \in ActiveIds

\* refresh() has run with other listeners registered, and a marked listener
\* element of the document, whose emitter element is gone, is not among them
C38_Witness ==
    /\ AfterRefresh /\ Marking /\ docChanged /\ config.rewind
    /\ listeners # <<>>
    /\ \E el \in marked \cap docListeners :
          /\ EmitterIdOf(el, marked, stripped) \notin docIds
          /\ \A l \in 1 .. Len(listeners) : listeners[l].element # el

(***************************************************************************)
(* Clicks on a page whose script rewrites the document and calls refresh() *)
(***************************************************************************)
\* The configs explored: smooth scrolling forced, native and switched off
RebindConfigs ==
    [ offsetTop          : { 1 },
      smoothScroll       : { "auto", "false" },
      windowBottomOffset : { 0 } ]

\* An instance on a page with or without listener elements
RebindInit ==
    /\ userConfig \in RebindConfigs
    /\ config = ResolveConfig(userConfig)
    /\ layout = 1
    /\ scrollY = 0
    /\ docListeners \in ListenerSets
    /\ docIds = ElementIds
    /\ Construct
    /\ ScrollLimiter
    /\ PlainBrowser
    /\ Single

RebindNext ==
    \/ Refresh
    \/ InitCall
    \/ \E S \in ListenerSets : Mutate(S, docIds)
    \/ \E el \in 1 .. Len(ListenerElements) : Click(el)
    \/ OnMore("click")
    \/ Animate
    \/ Update

RebindSpec == RebindInit /\ [][RebindNext]_vars

(***************************************************************************)
(* C34: one click, one run of the click handler                            *)
(***************************************************************************)
\* C34: however often refresh() has run, called as such or by init(), no
\* listener element has the click handler of the instance attached more
\* than once, and a click on a smooth-scroll link leads to one emission of
\* 'click' (every 'click' callback runs once, in registration order) and to
\* one scrollTo call.
C34_OneHandler ==
    /\ \A el \in 1 .. Len(ListenerElements) : clickBound[el] <= 1
    /\ (scrollCall # <<>> /\ scrollCall[Len(scrollCall)].last
          /\ scrollCall[Len(scrollCall)].via = "click")
        => /\ Len(scrollCall) = 1
           /\ fired = Emit(events, "click")

\* A link has been clicked that was not in the document when the instance
\* was constructed, on a page whose links refresh() had found before: the
\* two 'click' callbacks have run once each and scrollTo was called once.
C34_Witness ==
    /\ docChanged
    /\ scrollCall # <<>>
    /\ scrollCall[1].last
    /\ scrollCall[1].via = "click"
    /\ scrollCall[1].id = <<"b">>
    /\ fired = <<1, 2>>
    /\ \A el \in {1, 2, 4, 5} : clickBound[el] = 1
    /\ clickBound[3] = 0

(***************************************************************************)
(* C33: the deprecated options offset and offsetFrom                       *)
(***************************************************************************)
\* C33: the number given as offset, be it negative, zero or positive, is what
\* a pass subtracts from the vertical position of an emitter to get its
\* trigger position (the emitter's top in single mode, and the end of its
\* span); with offsetFrom given as well, it is the height of the element
\* offsetFrom selects plus offset.
C33_OffsetSubtracted ==
    (Constructed /\ Has(userConfig, "offset") /\ ~config.multiple) =>
        LET expected == (IF HasOffsetFrom(userConfig) THEN fromElement[1] ELSE 0)
                            + userConfig.offset
        IN  \A id \in docIds :
                /\ EmitterPosition(id, position).top =
                      Max(BoundingClientRect(id).top + position - expected, 0)
                /\ EmitterPosition(id, position).bottom =
                      Max(BoundingClientRect(id).bottom + position - expected, 0)

\* A pass has run for an instance given a negative offset: the trigger
\* position of an emitter is below its top edge
C33_Witness ==
    /\ Constructed
    /\ Has(userConfig, "offset")
    /\ userConfig.offset < 0
    /\ lastPass = "update"
    /\ EmitterPosition(<<"b">>, position).top = Layouts[layout].top[<<"b">>] + 1

(***************************************************************************)
(* A page without the element offsetFrom selects                           *)
(***************************************************************************)
\* The configs explored: offsetFrom with the marker enabled and disabled
\* (a pass with the marker disabled returns at line 195, before offsetTop
\* is called)
MissingConfigs ==
    { [offsetFrom |-> <<"header">>, windowBottomOffset |-> 0],
      [offsetFrom |-> <<"header">>, windowBottomOffset |-> 0,
       attributeCurrent |-> <<>>] }

\* new ScrollReaction(userConfig) on a page that holds the element, 2 pixels
\* high, or does not hold it, for a user who has asked for reduced motion
\* (every scrollTo jumps)
MissingInit ==
    /\ userConfig \in MissingConfigs
    /\ config = ResolveConfig(userConfig)
    /\ layout = 1
    /\ scrollY \in {0, 2}
    /\ docListeners = 1 .. Len(ListenerElements)
    /\ docIds = ElementIds
    /\ url = <<"u">>
    /\ scrollCall = <<>>
    /\ activeElement = NULL
    /\ tabindex = {}
    /\ scrollBehavior = TRUE
    /\ scrollOptions = TRUE
    /\ reducedMotion = TRUE
    /\ fromElement \in { <<>>, <<2>> }
    /\ Construct
    /\ ScrollLimiter
    /\ Single

\* The page's script removes the element offsetFrom selects
RemoveFromElement ==
    /\ fromElement # <<>>
    /\ fromElement' = <<>>
    /\ geoChanged' = TRUE
    /\ docChanged' = TRUE
    /\ fired' = <<>>
    /\ seen' = <<>>
    /\ thrown' = FALSE
    /\ lastPass' = "none"
    /\ scrollCall' = Stale(scrollCall)
    /\ UNCHANGED <<config, userConfig, instance, listeners, emitters, events, position,
                   status, scrollY, layout, docListeners, docIds, marked, stripped,
                   clickBound, url, activeElement, tabindex, scrollBehavior, scrollOptions,
                   reducedMotion, deferVars, pairVars>>

\* The user scrolls a window no handler is attached to: this.init() threw
\* at line 89, before lines 94-100
ScrollUnheard(p) ==
    /\ Clamp(p, layout) # scrollY
    /\ scrollY' = Clamp(p, layout)
    /\ fired' = <<>>
    /\ seen' = <<>>
    /\ thrown' = FALSE
    /\ lastPass' = "none"
    /\ scrollCall' = Cancelled(scrollCall)
    /\ UNCHANGED <<config, userConfig, instance, listeners, emitters, events, position,
                   status, layout, docListeners, docIds, marked, stripped, clickBound,
                   geoChanged, docChanged, url, activeElement, tabindex,
                   scrollBehavior, scrollOptions, reducedMotion, fromElement,
                   deferVars, pairVars>>

\* The methods need the instance; the click handlers of line 139, attached
\* before the pass of this.init() threw, run without it
MissingNext ==
    \/ Constructed /\ Update
    \/ Constructed /\ \E p \in {0, 2} : Scroll(p)
    \/ ~Constructed /\ \E p \in {0, 2} : ScrollUnheard(p)
    \/ Constructed /\ \E id \in { <<"b">>, <<"x">> } : ScrollTo(id)
    \/ \E el \in {1, 5} : Click(el)
    \/ Constructed /\ OnMore("update")
    \/ RemoveFromElement
    \/ Constructed /\ InitCall

MissingSpec == MissingInit /\ [][MissingNext]_vars

(***************************************************************************)
(* C32: offsetFrom selecting no element                                    *)
(***************************************************************************)
\* C32: with offsetFrom given and no element matching it in the document,
\* the constructor, every pass and every scrollTo complete without raising
\* an error.
C32_NoRaise ==
    (HasOffsetFrom(userConfig) /\ fromElement = <<>>) => ~thrown

\* update() has raised the TypeError for an instance constructed while the
\* element was there: position and status are set, the 'update' callback has
\* run, and the marker sits where the pass before left it, on the links of
\* an emitter the scroll offset is above.
C32_Witness ==
    /\ fromElement = <<>>
    /\ lastPass = "update"
    /\ thrown
    /\ position = 0
    /\ fired = <<1>>
    /\ marked # {}
    /\ ReachedIds(0) = {}

(***************************************************************************)
(* scrollTo in a browser whose window.scrollTo takes two numbers only      *)
(***************************************************************************)
\* The configs explored: smooth scrolling forced, left to the browser, off
LegacyConfigs ==
    [ offsetTop          : { 1 },
      smoothScroll       : { "true", "auto", "false" },
      windowBottomOffset : { 0 } ]

\* An instance in a browser without native smooth scrolling, on a page that
\* has loaded no polyfill, for a user who has or has not asked for reduced
\* motion
LegacyInit ==
    /\ userConfig \in LegacyConfigs
    /\ config = ResolveConfig(userConfig)
    /\ layout = 1
    /\ scrollY \in ScrollRange(layout)
    /\ docListeners = 1 .. Len(ListenerElements)
    /\ docIds \in IdSets
    /\ url \in Urls
    /\ scrollCall = <<>>
    /\ activeElement = NULL
    /\ tabindex = {}
    /\ scrollBehavior = FALSE
    /\ scrollOptions = FALSE
    /\ reducedMotion \in BOOLEAN
    /\ fromElement = <<>>
    /\ Construct
    /\ ScrollLimiter
    /\ Single

LegacyNext ==
    \/ \E id \in NavIds : ScrollTo(id)
    \/ \E el \in 1 .. Len(ListenerElements) : Click(el)
    \/ \E p \in {0, 2} : Scroll(p)
    \/ Update

LegacySpec == LegacyInit /\ [][LegacyNext]_vars

(***************************************************************************)
(* C31: a smooth scroll request that raises                                *)
(***************************************************************************)
\* C31: where the request for an animated scroll raises, scrollTo catches
\* the error and jumps to the same destination: no scrollTo call and no
\* click ends with an error, and the scroll a call has asked for is an
\* immediate one that has left the window at the destination.
C31_CaughtLocally ==
    ScrollRequestRaises =>
        /\ ~thrown
        /\ \A i \in 1 .. Len(scrollCall) :
              scrollCall[i].last =>
                  /\ scrollCall[i].behavior = "auto"
                  /\ scrollY = Clamp(scrollCall[i].top, layout)

\* scrollTo('b') has ended with the TypeError of the smooth scroll request:
\* b has the focus and the URL its fragment, the window has not moved and no
\* scroll has been requested.
C31_Witness ==
    /\ thrown
    /\ lastPass = "none"
    /\ config.smoothScroll = "true"
    /\ activeElement = <<"b">>
    /\ url = <<"u", "#", "b">>
    /\ scrollCall = <<>>
    /\ scrollY = 0
    /\ position = 0

(***************************************************************************)
(* init() (lines 87-101): the three rate-limited window handlers together, *)
(* the browser dispatching an event after every scroll and resize          *)
(***************************************************************************)
\* The configs explored: a throttle delay of 2 ms, single and multiple
\* mode, rewind on and off
LiveConfigs ==
    { [throttleDelay |-> 2, offsetTop |-> 1, windowBottomOffset |-> 0],
      [throttleDelay |-> 2, offsetTop |-> 1, windowBottomOffset |-> 0,
       rewind |-> FALSE],
      [throttleDelay |-> 2, offsetTop |-> 1, offsetBottom |-> 1,
       windowBottomOffset |-> 0, multiple |-> TRUE] }

LiveInit ==
    /\ userConfig \in LiveConfigs
    /\ config = ResolveConfig(userConfig)
    /\ layout = 1
    /\ scrollY = 0
    /\ docListeners = 1 .. Len(ListenerElements)
    /\ docIds = ElementIds
    /\ PlainBrowser
    /\ Construct
    /\ ScrollLimiter
    /\ Single

\* The last millisecond in which the user scrolls, resizes or turns the
\* device; silence follows
MaxActive == 3

\* The browser has dispatched the event e in this millisecond (it fires an
\* event at most once per frame)
DispatchedNow(e) ==
    IF e = "scroll"
    THEN lastTime = <<now>> \/ \E tm \in timers : tm.now = now
    ELSE \E tm \in debounced[e].timers : tm.now = now

\* The user has acted in this millisecond (two acts of the user are at
\* least a millisecond apart)
ActedNow ==
    \/ queued # {}
    \/ \E e \in DebouncedEvents \cup {"scroll"} : DispatchedNow(e)

\* The user scrolls to offset p; the browser will fire a scroll event
UserScroll(p) ==
    /\ now <= MaxActive
    /\ ~ActedNow
    /\ now + interval <= MaxTime
    /\ DoScroll(p)
    /\ queued' = queued \cup {"scroll"}
    /\ UNCHANGED <<interval, debounce, lastTime, deferTimer, timers, now,
                   history, debounced, again>>
    /\ NavCancel
    /\ UNCHANGED pairVars

\* The window is resized or the device turned (event e): the page is laid
\* out as Layouts[l]; the browser will fire the event e, and a scroll event
\* as well when the new layout has moved the scroll offset
UserResize(e, l) ==
    /\ now <= MaxActive
    /\ ~ActedNow
    /\ now + ResizeDelay <= MaxTime
    /\ (Min(scrollY, ScrollMax(l)) # scrollY) => now + interval <= MaxTime
    /\ DoResize(l)
    /\ queued' = queued \cup {e}
                   \cup (IF Min(scrollY, ScrollMax(l)) # scrollY
                         THEN {"scroll"} ELSE {})
    /\ UNCHANGED <<interval, debounce, lastTime, deferTimer, timers, now,
                   history, debounced, again>>
    /\ NavCancel
    /\ UNCHANGED pairVars

\* The rate limiter lim once the function defer returned has been called
\* (lines 703-724), in debounce mode db with interval iv
Called(lim, db, iv) ==
    IF ShouldDefer(db, lim.lastTime, now, iv)
    THEN [lim EXCEPT !.deferTimer = @ + 1,
                     !.timers = SetTimeout(ClearTimeout(@, lim.deferTimer),
                                           lim.deferTimer + 1, now, iv)]
    ELSE [lim EXCEPT !.lastTime = <<now>>]

\* update() called n >= 1 times in a row: what the calls leave, and the
\* callbacks they have run
RECURSIVE Runs(_, _, _, _, _)
Runs(n, ls, ems, mk, st) ==
    IF n = 1 THEN Pass(ls, ems, mk, st)
    ELSE LET r == Runs(n - 1, ls, ems, mk, st)
             p == Pass(ls, r.emitters, r.marked, r.stripped)
         IN  [p EXCEPT !.fired = r.fired \o p.fired,
                       !.seen = r.seen \o p.seen,
                       !.thrown = r.thrown \/ p.thrown]

\* The handlers of one event run update() n >= 1 times
DoUpdates(n) ==
    \E r \in { Runs(n, listeners, emitters, marked, stripped) } :
        /\ emitters' = r.emitters
        /\ marked' = r.marked
        /\ stripped' = r.stripped
        /\ position' = r.position
        /\ status' = r.status
        /\ fired' = r.fired
        /\ seen' = r.seen
        /\ thrown' = r.thrown
        /\ lastPass' = IF lastPass = "none" /\ n = 1 THEN "update" ELSE "repeat"
        /\ geoChanged' = FALSE
        /\ UNCHANGED <<config, userConfig, instance, listeners, events, scrollY, layout, docListeners,
                       docIds, clickBound, docChanged>>

\* The browser dispatches the scroll event to the throttled handlers, in
\* the order they were attached: each runs update() at once or sets its
\* timeout
DispatchScroll ==
    /\ "scroll" \in queued
    /\ queued' = queued \ {"scroll"}
    /\ LET first == Called([lastTime |-> lastTime, deferTimer |-> deferTimer,
                            timers |-> timers], debounce, interval)
           n == (IF ShouldDefer(debounce, lastTime, now, interval) THEN 0 ELSE 1)
                + Cardinality({ k \in 1 .. Len(again) :
                      ~ShouldDefer(FALSE, again[k].scroll.lastTime, now, interval) })
       IN  /\ lastTime' = first.lastTime
           /\ deferTimer' = first.deferTimer
           /\ timers' = first.timers
           /\ again' = [k \in 1 .. Len(again) |->
                           [again[k] EXCEPT !.scroll = Called(@, FALSE, interval)]]
           /\ IF n = 0 THEN NoPass ELSE DoUpdates(n)
    /\ UNCHANGED <<interval, debounce, now, history, debounced, pairVars>>
    /\ NavIdle

\* The browser dispatches the event e to its debounced handlers (lines
\* 703-717 with debounce = true: the callback is always deferred)
DispatchDebounced(e) ==
    /\ e \in queued \cap DebouncedEvents
    /\ queued' = queued \ {e}
    /\ ShouldDefer(TRUE, <<>>, now, ResizeDelay)
    /\ debounced' =
          [debounced EXCEPT ![e] =
              [deferTimer |-> @.deferTimer + 1,
               timers     |-> SetTimeout(ClearTimeout(@.timers, @.deferTimer),
                                         @.deferTimer + 1, now, ResizeDelay)]]
    /\ again' = [k \in 1 .. Len(again) |->
                    [again[k] EXCEPT ![e] = Called(@, TRUE, ResizeDelay)]]
    /\ NoPass
    /\ UNCHANGED <<interval, debounce, lastTime, deferTimer, timers, now,
                   history, pairVars>>
    /\ NavIdle

\* A due timeout of the debounced handler of event e runs update() (lines
\* 712-717; the lastTime it assigns belongs to this wrapper and is never
\* read, debounce being true)
DebouncedTimeout(e, tm) ==
    /\ tm \in debounced[e].timers
    /\ now >= tm.due
    /\ debounced' = [debounced EXCEPT ![e].timers = @ \ {tm}]
    /\ DoUpdate
    /\ UNCHANGED <<interval, debounce, lastTime, deferTimer, timers, now,
                   history, queued, again, pairVars>>
    /\ NavIdle

\* A due timeout of a handler a later init() attached, the k-th call's for
\* event e, runs update() (lines 712-717)
AgainTimeout(k, e, tm) ==
    /\ tm \in again[k][e].timers
    /\ now >= tm.due
    /\ again' = [again EXCEPT ![k][e] =
                    [@ EXCEPT !.timers = @ \ {tm}, !.lastTime = <<tm.now>>]]
    /\ DoUpdate
    /\ UNCHANGED <<interval, debounce, lastTime, deferTimer, timers, now,
                   history, queued, debounced, pairVars>>
    /\ NavIdle

\* A due timeout of the throttled handler runs update() (lines 712-717)
ScrollTimeout(tm) ==
    /\ TimeoutCore(tm)
    /\ UNCHANGED <<history, queued, debounced, again>>

\* Silence: no event waits for its dispatch and no timeout of a handler is
\* pending
Quiescent ==
    /\ queued = {}
    /\ timers = {}
    /\ \A e \in DebouncedEvents : debounced[e].timers = {}
    /\ \A k \in 1 .. Len(again) : \A e \in DOMAIN again[k] :
          again[k][e].timers = {}

\* A timeout is due
Due ==
    \/ \E tm \in timers : now >= tm.due
    \/ \E e \in DebouncedEvents : \E tm \in debounced[e].timers : now >= tm.due
    \/ \E k \in 1 .. Len(again) : \E e \in DOMAIN again[k] :
          \E tm \in again[k][e].timers : now >= tm.due

\* A millisecond passes; before that, the browser dispatches the events it
\* has and runs the timeouts that are due.  (Time is followed while the
\* user is active or a timeout is pending; in the silence after that,
\* nothing depends on it.)
LiveTick == queued = {} /\ ~Due /\ (now <= MaxActive \/ ~Quiescent) /\ Tick

LiveNext ==
    \/ \E p \in {0, 2, 4} : UserScroll(p)
    \/ \E e \in DebouncedEvents : \E l \in {1, 2} : UserResize(e, l)
    \/ DispatchScroll
    \/ \E e \in DebouncedEvents : DispatchDebounced(e)
    \/ \E tm \in timers : ScrollTimeout(tm)
    \/ \E e \in DebouncedEvents : \E tm \in debounced[e].timers :
          DebouncedTimeout(e, tm)
    \/ LiveTick

LiveSafe == LiveInit /\ [][LiveNext]_vars

\* What the browser does of its own: dispatch an event, run a due timeout,
\* let time pass
LiveProgress ==
    \/ DispatchScroll
    \/ \E e \in DebouncedEvents : DispatchDebounced(e)
    \/ \E tm \in timers : ScrollTimeout(tm)
    \/ \E e \in DebouncedEvents : \E tm \in debounced[e].timers :
          DebouncedTimeout(e, tm)
    \/ LiveTick

\* The browser's event loop never stops: while it has an event to dispatch,
\* a timeout to run or time to let pass, it does one of them
LiveSpec == LiveSafe /\ WF_vars(LiveProgress)

\* The same page and user with a script that calls init() again
ReinitNext ==
    \/ LiveNext
    \/ InitCall
    \/ OnMore("update")
    \/ \E k \in 1 .. Len(again) : \E e \in DOMAIN again[k] :
          \E tm \in again[k][e].timers : AgainTimeout(k, e, tm)

ReinitSpec == LiveInit /\ [][ReinitNext]_vars

(***************************************************************************)
(* C36: eventual consistency                                               *)
(***************************************************************************)
\* The instance agrees with the window: position and status are those of
\* the scroll offset, and a pass run now would leave every flag and every
\* marker as it is
Settled ==
    /\ position = scrollY
    /\ status = Status(scrollY, WindowBottomPosition)
    /\ \E r \in { Pass(listeners, emitters, marked, stripped) } :
          /\ r.emitters = emitters
          /\ r.marked = marked
          /\ r.stripped = stripped

\* C36: after any scroll, resize and orientation-change events, silence is
\* reached (every event is dispatched, every pending timeout runs), and
\* whenever no event and no timeout is pending the position is the scroll
\* offset and every flag and marker is what a pass at that offset yields.
C36_EventuallyConsistent ==
    /\ [](Quiescent => Settled)
    /\ <>[](Quiescent /\ Settled)

\* Silence after a scroll that the throttled handler deferred and a resize:
\* the timeouts have run the passes and the instance shows the new offset on
\* the new layout.
C36_Witness ==
    /\ Quiescent
    /\ Settled
    /\ layout = 2
    /\ position > 0
    /\ deferTimer >= 1
    /\ \E e \in DebouncedEvents : debounced[e].deferTimer >= 1
    /\ marked # {}

(***************************************************************************)
(* refresh() on a page whose attributes update() rewrites                  *)
(***************************************************************************)
\* The configs explored: the default names, a marker named as the attribute
\* the scan selects by, a marker named href, and the emitter elements
\* selected as listeners by their id
RescanConfigs ==
    { [windowBottomOffset |-> 0],
      [windowBottomOffset |-> 0, attributeCurrent |-> ListenerAttribute],
      [windowBottomOffset |-> 0, attributeCurrent |-> <<"href">>],
      [windowBottomOffset |-> 0, attribute |-> <<"id">>] }

\* new ScrollReaction(userConfig) on a page loaded at any scroll offset
RescanInit ==
    /\ userConfig \in RescanConfigs
    /\ config = ResolveConfig(userConfig)
    /\ layout \in 1 .. Len(Layouts)
    /\ scrollY \in ScrollRange(layout)
    /\ docListeners = 1 .. Len(ListenerElements)
    /\ docIds = ElementIds
    /\ Construct
    /\ ScrollLimiter
    /\ PlainBrowser
    /\ Single

RescanNext ==
    \/ Refresh
    \/ Update
    \/ \E p \in ScrollRange(layout) : Scroll(p)
    \/ \E el \in 1 .. Len(ListenerElements) : Click(el)
    \/ Animate

RescanSpec == RescanInit /\ [][RescanNext]_vars

====
